---- MODULE Spec2Model ----
(***************************************************************************)
(* Demand forecasting and replenishment recommendations of control-petro   *)
(* (predictions.py), over the store of database.py and the transaction     *)
(* recording request of app.py.                                            *)
(*                                                                         *)
(* Numbers.  Liters are integers.  Values the code keeps as non-integral   *)
(* floats are kept exact as a numerator over a positive denominator:       *)
(* days_left is the pair <<n, d>>, capacity fractions are scaled by 100,   *)
(* values rounded to k decimals are integers scaled by 10^k.  A date is a  *)
(* day number, its weekday is the day number modulo 7; a datetime is a day *)
(* number and an hour.  NegInf is the float -inf, which                    *)
(* float(data["liters"]) accepts in a request.                             *)
(***************************************************************************)
EXTENDS Integers, Sequences, FiniteSets, TLC

VARIABLES
    today,          \* date.today(), the date of datetime.utcnow()
    clock,          \* the hour of datetime.utcnow()
    stations,       \* table stations: id -> row
    transactions,   \* table fuel_transactions: row (without its id) -> copies
    snapshots,      \* table inventory_snapshots
    predictions,    \* table predictions, in insertion order
    result,         \* what the last generate_order_recommendations call gave
    requests,       \* number of api_record_transaction requests served
    runs,           \* number of api_recommendations requests served
    call,           \* the last direct call of a function: arguments and value
    sessions        \* the api_record_transaction requests in progress

vars == <<today, clock, stations, transactions, snapshots, predictions, result, requests,
          runs, call, sessions>>

(***************************************************************************)
(* Bounds of the model                                                     *)
(***************************************************************************)
NumStations == 2
LastDay == 4
MaxRequests == 2

\* the store is seeded up to the day before the last one
InitialDay == LastDay - 1

(***************************************************************************)
(* Program constants                                                       *)
(***************************************************************************)
FUEL_TYPES == <<"magna", "premium", "diesel">>
HISTORY_DAYS == 30
MIN_HISTORY == 3
SENTINEL_DAYS == 999
ROUND_UNIT == 500
MIN_ORDER == 1000
DEFAULT_HORIZON_HOURS == 72
DEFAULT_HORIZON_DAYS == 7

\* float("-inf"), outside the range of every finite value of the model
NegInf == -1000000000
\* Python None
None == [none |-> TRUE]

StationIds == 1..NumStations
FuelSet == {FUEL_TYPES[i] : i \in 1..Len(FUEL_TYPES)}

(***************************************************************************)
(* Numeric helpers                                                         *)
(***************************************************************************)
Max(a, b) == IF a >= b THEN a ELSE b
Min(a, b) == IF a <= b THEN a ELSE b

\* A mis-rounding: truncation instead of rounding to nearest.
RoundTruncate(n, d) == n \div d

\* Python round(): the integer nearest to n/d (d > 0), ties to the even one.
RoundHalfEven(n, d) ==
    LET q == n \div d
        r == n - q * d
    IN  IF 2 * r < d THEN q
        ELSE IF 2 * r > d THEN q + 1
        ELSE IF q % 2 = 0 THEN q ELSE q + 1

RECURSIVE Gcd(_, _)
Gcd(a, b) == IF b = 0 THEN a ELSE Gcd(b, a % b)

\* the fraction <<n, d>>, d > 0, in lowest terms
Reduced(q) ==
    LET g == Gcd(IF q[1] < 0 THEN -q[1] ELSE q[1], q[2])
    IN  IF g = 0 THEN q ELSE <<q[1] \div g, q[2] \div g>>

RECURSIVE SumSeq(_)
SumSeq(s) == IF s = <<>> THEN 0 ELSE Head(s) + SumSeq(Tail(s))

RECURSIVE ConcatAll(_)
ConcatAll(ss) == IF ss = <<>> THEN <<>> ELSE Head(ss) \o ConcatAll(Tail(ss))

RECURSIVE SortedSeqOf(_)
\* the elements of a finite set of integers in ascending order
SortedSeqOf(S) ==
    IF S = {} THEN <<>>
    ELSE LET m == CHOOSE x \in S : \A y \in S : x <= y
         IN  <<m>> \o SortedSeqOf(S \ {m})

(***************************************************************************)
(* predictions.py: get_daily_sales_history                                 *)
(***************************************************************************)
\* the rows the query's filter keeps
\* timestamp >= start, where start = utcnow() - timedelta(days)
InWindow(t, now, hour) ==
    \/ t.day > now - HISTORY_DAYS
    \/ t.day = now - HISTORY_DAYS /\ t.hour >= hour

\* A slip: the transaction type is not tested.
IsSaleAnyType(t, station_id, fuel_type, now, hour) ==
    /\ t.station_id = station_id
    /\ t.fuel_type = fuel_type
    /\ InWindow(t, now, hour)

IsSale(t, station_id, fuel_type, now, hour) ==
    /\ t.station_id = station_id
    /\ t.fuel_type = fuel_type
    /\ t.transaction_type = "sold"
    /\ InWindow(t, now, hour)

\* sum(liters) over a set of rows, each with its number of copies
RECURSIVE SumLiters(_, _)
SumLiters(rows, txs) ==
    IF rows = {} THEN 0
    ELSE LET t == CHOOSE r \in rows : TRUE
         IN  t.liters * txs[t] + SumLiters(rows \ {t}, txs)

\* group_by(date), sum(liters), order_by(day): <<day, total>> pairs
GetDailySalesHistory(txs, station_id, fuel_type, now, hour) ==
    LET rows == {t \in DOMAIN txs : IsSale(t, station_id, fuel_type, now, hour)}
        days == SortedSeqOf({t.day : t \in rows})
    IN  [k \in 1..Len(days) |->
            <<days[k], SumLiters({t \in rows : t.day = days[k]}, txs)>>]

(***************************************************************************)
(* predictions.py: predict_demand                                          *)
(***************************************************************************)
WEIGHTS_7 == <<1, 1, 2, 2, 3, 3, 4>>

\* the last k elements of a sequence (values[-k:])
LastN(s, k) == SubSeq(s, Len(s) - k + 1, Len(s))

\* A slip: every day weighs the same.
WeightsFlat(n) == [i \in 1..Min(n, 7) |-> 1]

Weights(n) == IF n >= 7 THEN WEIGHTS_7 ELSE [i \in 1..n |-> i]

\* A slip: the weighted total is divided by the number of values.
WmaByCount(values) ==
    LET w == Weights(Len(values))
        recent == LastN(values, Len(w))
    IN  <<SumSeq([i \in 1..Len(w) |-> w[i] * recent[i]]), Len(w)>>

\* np.average(recent, weights): <<numerator, denominator>>
Wma(values) ==
    LET w == Weights(Len(values))
        recent == LastN(values, Len(w))
    IN  <<SumSeq([i \in 1..Len(w) |-> w[i] * recent[i]]), SumSeq(w)>>

\* A slip: the slope is taken over all the values.
DailyTrendAll(values) ==
    LET m == Len(values)
        sx == SumSeq([i \in 1..m |-> i - 1])
        sxx == SumSeq([i \in 1..m |-> (i - 1) * (i - 1)])
        sy == SumSeq(values)
        sxy == SumSeq([i \in 1..m |-> (i - 1) * values[i]])
    IN  IF m >= 5 THEN <<m * sxy - sx * sy, m * sxx - sx * sx>> ELSE <<0, 1>>

\* np.polyfit(x, trend_data, 1)[0] over the last min(14, n) values, as
\* <<numerator, denominator>>; zero with fewer than 5 points
DailyTrend(values) ==
    LET m == Min(14, Len(values))
        y == LastN(values, m)
        sx == SumSeq([i \in 1..m |-> i - 1])
        sxx == SumSeq([i \in 1..m |-> (i - 1) * (i - 1)])
        sy == SumSeq(y)
        sxy == SumSeq([i \in 1..m |-> (i - 1) * y[i]])
    IN  IF m >= 5 THEN <<m * sxy - sx * sy, m * sxx - sx * sx>> ELSE <<0, 1>>

\* p1 / q1 <= p2 / q2 for fractions of non-negative numerators and positive
\* denominators, compared by their integer parts so that no product is formed
RECURSIVE FracLeq(_, _, _, _)
FracLeq(p1, q1, p2, q2) ==
    IF p1 \div q1 # p2 \div q2 THEN p1 \div q1 < p2 \div q2
    ELSE IF p1 % q1 = 0 THEN TRUE
    ELSE IF p2 % q2 = 0 THEN FALSE
    ELSE FracLeq(q2, p2 % q2, q1, p1 % q1)

\* the greatest common divisor of the absolute values of a sequence
RECURSIVE GcdSeq(_)
GcdSeq(s) ==
    IF s = <<>> THEN 0
    ELSE Gcd(IF Head(s) < 0 THEN -Head(s) ELSE Head(s), GcdSeq(Tail(s)))

\* A slip: the branch of 14 or more observed days is missing.
ConfidenceTwoTiers(values) == IF Len(values) >= 7 THEN 800 ELSE 650

\* confidence, in thousandths.  cv = np.std / np.mean is the same for the
\* values divided by their common divisor: cv^2 = a / sv^2 over those.
Confidence(values) ==
    LET n == Len(values)
        g == IF GcdSeq(values) = 0 THEN 1 ELSE GcdSeq(values)
        v == [i \in 1..n |-> values[i] \div g]
        sv == SumSeq(v)
        svv == SumSeq([i \in 1..n |-> v[i] * v[i]])
        a == n * svv - sv * sv      \* (n * std)^2
        \* 500 * cv >= k - 1/2
        AtLeast(k) == k = 0 \/ FracLeq((2 * k - 1) * (2 * k - 1), 1000000, a, sv * sv)
        \* round(500 * cv), capped at 300 = 1000 * (1 - 0.7)
        m == CHOOSE k \in 0..300 : AtLeast(k) /\ (k = 300 \/ ~AtLeast(k + 1))
    IN  IF n >= 14
        THEN IF sv > 0 THEN Max(700, Min(990, 1000 - m)) ELSE 700
        ELSE IF n >= 7 THEN 800 ELSE 650

\* A mis-test: one day too many is required.
EnoughHistoryStrict(history) == Len(history) > MIN_HISTORY

\* the length test of predict_demand
EnoughHistory(history) == Len(history) >= MIN_HISTORY

\* A slip: the weekday is taken from the day of the month.
WeekdayOfMonthDay(day) == (day % 30) % 7

\* d.weekday() of a date
Weekday(day) == day % 7

\* dow_multipliers.get(dow, 1.0) as <<numerator, denominator>>: the mean of
\* the weekday's totals over the mean of all totals, 1 when the weekday has
\* no total or the overall mean is not positive
\* A slip: the totals are divided instead of the means.
DowMultiplierOfTotals(history, dow) ==
    LET mine == SelectSeq(history, LAMBDA h : Weekday(h[1]) = dow)
        dow_sum == SumSeq([i \in 1..Len(mine) |-> mine[i][2]])
        all_sum == SumSeq([i \in 1..Len(history) |-> history[i][2]])
    IN  IF mine = <<>> THEN <<1, 1>>
        ELSE IF all_sum > 0 THEN Reduced(<<dow_sum, all_sum>>)
        ELSE <<1, 1>>

DowMultiplier(history, dow) ==
    LET mine == SelectSeq(history, LAMBDA h : Weekday(h[1]) = dow)
        dow_sum == SumSeq([i \in 1..Len(mine) |-> mine[i][2]])
        all_sum == SumSeq([i \in 1..Len(history) |-> history[i][2]])
    IN  IF mine = <<>> THEN <<1, 1>>
        ELSE IF all_sum > 0
        THEN Reduced(<<dow_sum * Len(history), Len(mine) * all_sum>>)
        ELSE <<1, 1>>

\* A slip: a negative prediction is passed on as it is.
FloorOmitted(predicted) == predicted

\* max(predicted, 0) on the numerator of a fraction
FloorAtZero(predicted) == Max(predicted, 0)

\* the entry of the d-th day after base_date: the date, predicted_liters
\* rounded to a whole number, dow_multiplier in thousandths
PredictedDay(history, wma, tr, base_date, d) ==
    LET future_date == base_date + d
        dow_mult == DowMultiplier(history, Weekday(future_date))
        level == Reduced(<<wma[1] * tr[2] + tr[1] * d * wma[2], wma[2] * tr[2]>>)
        predicted == <<FloorAtZero(level[1] * dow_mult[1]), level[2] * dow_mult[2]>>
    IN  [date |-> future_date,
         predicted_liters |-> RoundHalfEven(predicted[1], predicted[2]),
         dow_multiplier |-> RoundHalfEven(1000 * dow_mult[1], dow_mult[2])]

\* avg_daily in liters, trend in tenths of a liter per day, confidence in
\* thousandths, predictions the list of the horizon_days entries
PredictDemand(history, horizon_days, base_date) ==
    IF ~EnoughHistory(history) THEN None
    ELSE LET values == [i \in 1..Len(history) |-> history[i][2]]
             wma == Reduced(Wma(values))
             tr == Reduced(DailyTrend(values))
         IN  [avg_daily |-> RoundHalfEven(wma[1], wma[2]),
              trend |-> RoundHalfEven(10 * tr[1], tr[2]),
              confidence |-> Confidence(values),
              predictions |-> [d \in 1..horizon_days |->
                                  PredictedDay(history, wma, tr, base_date, d)]]

(***************************************************************************)
(* predictions.py: get_current_inventory                                   *)
(***************************************************************************)
\* A slip: the order of the query is ascending.
GetCurrentInventoryOldest(snaps, station_id, fuel_type) ==
    LET mine == {sn \in snaps : sn.station_id = station_id /\ sn.fuel_type = fuel_type}
    IN  IF mine = {} THEN None
        ELSE LET snap == CHOOSE sn \in mine :
                            \A o \in mine : o.snapshot_date >= sn.snapshot_date
             IN  [liters |-> snap.liters_on_hand, capacity |-> snap.capacity,
                  date |-> snap.snapshot_date]

GetCurrentInventory(snaps, station_id, fuel_type) ==
    LET mine == {sn \in snaps : sn.station_id = station_id /\ sn.fuel_type = fuel_type}
    IN  IF mine = {} THEN None
        ELSE LET snap == CHOOSE sn \in mine :
                            \A o \in mine : o.snapshot_date <= sn.snapshot_date
             IN  [liters |-> snap.liters_on_hand, capacity |-> snap.capacity,
                  date |-> snap.snapshot_date]

(***************************************************************************)
(* predictions.py: calculate_days_until_empty                              *)
(* the result is the exact quotient <<n, d>>, d > 0                        *)
(***************************************************************************)
\* usable * 100, where usable = current_liters - capacity * min_threshold_pct
\* and the threshold is given in hundredths
Usable100(current_liters, capacity, threshold_pct) ==
    current_liters * 100 - capacity * threshold_pct

\* A slip: the demand test comes before the threshold test.
CalculateDaysDemandFirst(current_liters, avg_daily_demand, threshold_pct, capacity) ==
    IF current_liters = NegInf THEN <<0, 1>>
    ELSE LET usable100 == Usable100(current_liters, capacity, threshold_pct)
         IN  IF avg_daily_demand <= 0 THEN <<SENTINEL_DAYS, 1>>
             ELSE IF usable100 < 0 THEN <<usable100, 100 * avg_daily_demand>>
             ELSE <<usable100, 100 * avg_daily_demand>>

CalculateDaysUntilEmpty(current_liters, avg_daily_demand, threshold_pct, capacity) ==
    IF current_liters = NegInf THEN <<0, 1>>
    ELSE LET usable100 == Usable100(current_liters, capacity, threshold_pct)
         IN  IF usable100 <= 0 THEN <<0, 1>>
             ELSE IF avg_daily_demand <= 0 THEN <<SENTINEL_DAYS, 1>>
             ELSE <<usable100, 100 * avg_daily_demand>>

(***************************************************************************)
(* predictions.py: generate_order_recommendations                          *)
(***************************************************************************)
THRESHOLD_PCT == 15
TARGET_FILL_PCT == 85
URGENT_HOUR == 6
HIGH_HOUR == 8
NORMAL_HOUR == 7

\* getattr(station, f"{fuel_type}_capacity", 40000)
Capacity(station, fuel_type) ==
    CASE fuel_type = "magna" -> station.magna_capacity
      [] fuel_type = "premium" -> station.premium_capacity
      [] fuel_type = "diesel" -> station.diesel_capacity
      [] OTHER -> 40000

\* A slip: the buffer is three days.
BeyondHorizonWide(days_left, horizon_hours) ==
    24 * days_left[1] > (horizon_hours + 72) * days_left[2]

\* A slip: the comparison is turned around.
BeyondHorizonTurned(days_left, horizon_hours) ==
    24 * days_left[1] < (horizon_hours + 48) * days_left[2]

\* days_left > horizon_hours / 24 + 2
BeyondHorizon(days_left, horizon_hours) ==
    24 * days_left[1] > (horizon_hours + 48) * days_left[2]

\* A slip: the tank is filled to its capacity.
OrderLiters100ToFull(capacity, liters, avg_daily) ==
    Max(0, capacity * 100 - liters * 100 + avg_daily * 100)

\* max(0, target_fill - liters + avg_daily), times 100
OrderLiters100(capacity, liters, avg_daily) ==
    Max(0, capacity * TARGET_FILL_PCT - liters * 100 + avg_daily * 100)

\* A slip: the quantity is truncated to the unit below.
RoundToUnitDown(order100) == RoundTruncate(order100, 100 * ROUND_UNIT) * ROUND_UNIT

\* round(order_liters / 500) * 500
RoundToUnit(order100) == RoundHalfEven(order100, 100 * ROUND_UNIT) * ROUND_UNIT

\* A slip: the unit is taken for the minimum.
TooSmallUnit(order_liters) == order_liters < ROUND_UNIT

\* the test that suppresses a small order
TooSmall(order_liters) == order_liters < MIN_ORDER

\* A slip: the tiers are cut with < instead of <=.
UrgencyStrict(days_left) ==
    IF days_left[1] < days_left[2] THEN "urgent"
    ELSE IF days_left[1] < 2 * days_left[2] THEN "high"
    ELSE "normal"

Urgency(days_left) ==
    IF days_left[1] <= days_left[2] THEN "urgent"
    ELSE IF days_left[1] <= 2 * days_left[2] THEN "high"
    ELSE "normal"

\* A slip: a normal delivery is set two days before the depletion.
NormalOffsetEarlier(days_left) == (days_left[1] \div days_left[2]) - 2

\* int(days_left) - 1, the days until a normal delivery
NormalOffset(days_left) == (days_left[1] \div days_left[2]) - 1

\* A slip: the hours of the urgent and the high tier are exchanged.
DeliveryDtSwapped(urgency, days_left, now) ==
    IF urgency = "urgent" THEN [day |-> now + 1, hour |-> HIGH_HOUR]
    ELSE IF urgency = "high" THEN [day |-> now + 1, hour |-> URGENT_HOUR]
    ELSE [day |-> now + NormalOffset(days_left), hour |-> NORMAL_HOUR]

\* datetime.combine(delivery_date, hour)
DeliveryDt(urgency, days_left, now) ==
    IF urgency = "urgent" THEN [day |-> now + 1, hour |-> URGENT_HOUR]
    ELSE IF urgency = "high" THEN [day |-> now + 1, hour |-> HIGH_HOUR]
    ELSE [day |-> now + NormalOffset(days_left), hour |-> NORMAL_HOUR]

\* A slip: the pair is used without the test and the access raises.
OnMissingDataRaise == [kind |-> "raise"]

\* `continue` on a pair without a snapshot or without a forecast
OnMissingData == [kind |-> "skip"]

\* One iteration of the loop body for (station, fuel_type): "skip" (continue),
\* "raise" (an exception leaves the function) or "rec" with the dictionary
\* appended.  current_pct and days_until_empty are in tenths.
ProcessPair(station, fuel_type, horizon_hours, now, hour, txs, snaps) ==
    LET inv == GetCurrentInventory(snaps, station.id, fuel_type)
        demand == PredictDemand(GetDailySalesHistory(txs, station.id, fuel_type, now, hour),
                               DEFAULT_HORIZON_DAYS, now)
        capacity == Capacity(station, fuel_type)
        days_left == CalculateDaysUntilEmpty(inv.liters, demand.avg_daily,
                                             THRESHOLD_PCT, capacity)
        order_liters == RoundToUnit(OrderLiters100(capacity, inv.liters, demand.avg_daily))
        urgency == Urgency(days_left)
    IN  IF inv = None THEN OnMissingData
        ELSE IF demand = None THEN OnMissingData
        ELSE IF BeyondHorizon(days_left, horizon_hours) THEN [kind |-> "skip"]
        \* round(inf) raises OverflowError
        ELSE IF inv.liters = NegInf THEN [kind |-> "raise"]
        ELSE IF TooSmall(order_liters) THEN [kind |-> "skip"]
        ELSE [kind |-> "rec",
              rec |-> [station_id |-> station.id,
                       fuel_type |-> fuel_type,
                       current_liters |-> inv.liters,
                       current_pct |-> IF capacity > 0
                                       THEN RoundHalfEven(inv.liters * 1000, capacity)
                                       ELSE 0,
                       capacity |-> capacity,
                       recommended_liters |-> order_liters,
                       recommended_date |-> DeliveryDt(urgency, days_left, now),
                       urgency |-> urgency,
                       days_until_empty |-> RoundHalfEven(10 * days_left[1], days_left[2]),
                       avg_daily_demand |-> demand.avg_daily,
                       confidence |-> demand.confidence,
                       trend |-> demand.trend]]

\* the (station, fuel) pairs in the order of the two loops
RECURSIVE ActivePairs(_, _)
ActivePairs(sts, id) ==
    IF id > NumStations THEN <<>>
    ELSE (IF sts[id].active
          THEN [i \in 1..Len(FUEL_TYPES) |-> <<id, FUEL_TYPES[i]>>]
          ELSE <<>>) \o ActivePairs(sts, id + 1)

\* the loops: the list built so far, or "raise" as soon as one pair raises
RECURSIVE RunPairs(_, _, _, _, _, _, _, _)
RunPairs(pairs, acc, sts, horizon_hours, now, hour, txs, snaps) ==
    IF pairs = <<>> THEN [kind |-> "ok", recs |-> acc]
    ELSE LET p == Head(pairs)
             out == ProcessPair(sts[p[1]], p[2], horizon_hours, now, hour, txs, snaps)
         IN  IF out.kind = "raise" THEN [kind |-> "raise", recs |-> acc]
             ELSE RunPairs(Tail(pairs),
                           IF out.kind = "rec" THEN Append(acc, out.rec) ELSE acc,
                           sts, horizon_hours, now, hour, txs, snaps)

\* A slip: the ranks are given in the reverse order.
UrgencyRankReversed(u) == CASE u = "urgent" -> 2 [] u = "high" -> 1 [] u = "normal" -> 0

\* {"urgent": 0, "high": 1, "normal": 2}[r["urgency"]]
UrgencyRank(u) == CASE u = "urgent" -> 0 [] u = "high" -> 1 [] u = "normal" -> 2

\* the sort key compares as a tuple
KeyLess(a, b) ==
    \/ UrgencyRank(a.urgency) < UrgencyRank(b.urgency)
    \/ /\ UrgencyRank(a.urgency) = UrgencyRank(b.urgency)
       /\ a.days_until_empty < b.days_until_empty

\* list.sort(key): stable
RECURSIVE InsertSorted(_, _)
InsertSorted(sorted, r) ==
    IF sorted = <<>> THEN <<r>>
    ELSE IF KeyLess(r, Head(sorted)) THEN <<r>> \o sorted
    ELSE <<Head(sorted)>> \o InsertSorted(Tail(sorted), r)

\* A slip: the list is returned in the order of the loops.
SortRecsOmitted(recs) == recs

RECURSIVE SortRecs(_)
SortRecs(recs) ==
    IF recs = <<>> THEN <<>>
    ELSE InsertSorted(SortRecs(SubSeq(recs, 1, Len(recs) - 1)), recs[Len(recs)])

\* A slip: the row is stored as already fulfilled.
PredictionRowFulfilled(rec) ==
    [station_id |-> rec.station_id,
     fuel_type |-> rec.fuel_type,
     recommended_liters |-> rec.recommended_liters,
     recommended_date |-> rec.recommended_date,
     urgency |-> rec.urgency,
     confidence |-> rec.confidence,
     fulfilled |-> TRUE]

\* the Prediction row added for a recommendation
PredictionRow(rec) ==
    [station_id |-> rec.station_id,
     fuel_type |-> rec.fuel_type,
     recommended_liters |-> rec.recommended_liters,
     recommended_date |-> rec.recommended_date,
     urgency |-> rec.urgency,
     confidence |-> rec.confidence,
     fulfilled |-> FALSE]

(***************************************************************************)
(* predictions.py: get_demand_forecast                                     *)
(***************************************************************************)
\* the ids of the stations the forecast is summed over: the one asked for
\* (none when the id is unknown), or every active one when no id is given
\* (station_id 0 stands for the absent argument, which is as falsy as None)
SelectedStations(sts, station_id) ==
    IF station_id # 0
    THEN IF station_id \in DOMAIN sts THEN <<station_id>> ELSE <<>>
    ELSE SortedSeqOf({id \in DOMAIN sts : sts[id].active})

\* A slip: a declined forecast is used as if it were one, and the access
\* raises.
AddDeclinedRaises(forecast, fuel_type) == [raised |-> TRUE]

\* `if demand and demand["predictions"]` is false: nothing is added
AddDeclined(forecast, fuel_type) == forecast

\* forecast[p["date"]][fuel_type] += p["predicted_liters"] for each entry
AddPredictions(forecast, fuel_type, preds) ==
    [dt \in DOMAIN forecast |->
        LET mine == {d \in 1..Len(preds) : preds[d].date = dt}
        IN  IF mine = {} THEN forecast[dt]
            ELSE [forecast[dt] EXCEPT ![fuel_type] =
                     @ + SumSeq([k \in 1..Len(SortedSeqOf(mine)) |->
                                    preds[SortedSeqOf(mine)[k]].predicted_liters])]]

\* the loops over the stations and the fuels
RECURSIVE AccumulateForecast(_, _, _, _, _, _)
AccumulateForecast(forecast, pairs, txs, days, now, hour) ==
    IF pairs = <<>> \/ forecast = [raised |-> TRUE] THEN forecast
    ELSE LET demand == PredictDemand(
                          GetDailySalesHistory(txs, Head(pairs)[1], Head(pairs)[2],
                                               now, hour), days, now)
         IN  AccumulateForecast(
                 IF demand = None \/ demand.predictions = <<>>
                 THEN AddDeclined(forecast, Head(pairs)[2])
                 ELSE AddPredictions(forecast, Head(pairs)[2], demand.predictions),
                 Tail(pairs), txs, days, now, hour)

\* the list of buckets in ascending date order, or [raised |-> TRUE]
GetDemandForecast(sts, txs, station_id, days, now, hour) ==
    LET selected == SelectedStations(sts, station_id)
        pairs == ConcatAll([k \in 1..Len(selected) |->
                              [i \in 1..Len(FUEL_TYPES) |-> <<selected[k], FUEL_TYPES[i]>>]])
        empty == [dt \in (now + 1)..(now + days) |->
                     [magna |-> 0, premium |-> 0, diesel |-> 0]]
        forecast == AccumulateForecast(empty, pairs, txs, days, now, hour)
        dates == SortedSeqOf(DOMAIN forecast)
    IN  IF forecast = [raised |-> TRUE] THEN forecast
        ELSE [k \in 1..Len(dates) |->
                [date |-> dates[k],
                 magna |-> forecast[dates[k]].magna,
                 premium |-> forecast[dates[k]].premium,
                 diesel |-> forecast[dates[k]].diesel,
                 total |-> forecast[dates[k]].magna + forecast[dates[k]].premium
                           + forecast[dates[k]].diesel]]

(***************************************************************************)
(* The store after seed_data.seed_database, or as an earlier run of the    *)
(* program left it                                                         *)
(***************************************************************************)
\* mc, pc, dc of the first stations
SEED_CAPACITIES ==
    << <<50000, 25000, 50000>>, <<40000, 20000, 40000>>,
       <<45000, 25000, 35000>>, <<55000, 30000, 45000>> >>

NoSnapshot == <<>>

\* the hours of the sales blocks of a seeded day
BLOCK_HOURS == <<8, 12, 16, 20>>

\* the hour of the day at which the requests of a day arrive
OPENING_HOUR == 9

\* db.session.add(row) on the transactions table
InsertRow(txs, row) ==
    IF row \in DOMAIN txs THEN [txs EXCEPT ![row] = @ + 1] ELSE txs @@ (row :> 1)

\* db.session.add of each row of a sequence
InsertAll(txs, rows) ==
    [r \in DOMAIN txs \cup {rows[i] : i \in DOMAIN rows} |->
        (IF r \in DOMAIN txs THEN txs[r] ELSE 0)
            + Cardinality({i \in DOMAIN rows : rows[i] = r})]

\* A pair's seed: sales of base + step * k liters on day from + k up to the
\* initial day, a snapshot of level[1] liters on the initial day and one of
\* older[1] liters on day 0 (none when the sequence is empty).
PairSeed(from, base, step, level, older) ==
    [from |-> from, base |-> base, step |-> step, level |-> level, older |-> older]

SeedLow == PairSeed(0, 2000, 0, <<5000>>, <<15000>>)
SeedShort == PairSeed(InitialDay - 1, 1000, 2000, <<12000>>, <<15000>>)
SeedRising == PairSeed(InitialDay - 2, 1000, 1000, <<12000>>, <<15000>>)
SeedNoSnap == PairSeed(0, 2000, 0, NoSnapshot, NoSnapshot)
SeedFull == PairSeed(0, 2000, 0, <<35500>>, NoSnapshot)
SeedMid == PairSeed(0, 2000, 0, <<16500>>, <<9000>>)

StationSeeds ==
    << [magna |-> SeedLow, premium |-> SeedShort, diesel |-> SeedRising],
       [magna |-> SeedFull, premium |-> SeedNoSnap, diesel |-> SeedMid] >>

SeedTransactions(seed, station_id, fuel_type) ==
    [k \in 1..(InitialDay - seed.from + 1) |->
        [station_id |-> station_id, fuel_type |-> fuel_type,
         transaction_type |-> "sold",
         liters |-> seed.base + seed.step * (k - 1),
         day |-> seed.from + k - 1, hour |-> BLOCK_HOURS[1]]]

SeedSnapshots(seed, station_id, fuel_type, capacity) ==
    {[station_id |-> station_id, fuel_type |-> fuel_type,
      liters_on_hand |-> seed.level[i], capacity |-> capacity,
      snapshot_date |-> InitialDay] : i \in DOMAIN seed.level}
    \cup
    {[station_id |-> station_id, fuel_type |-> fuel_type,
      liters_on_hand |-> seed.older[i], capacity |-> capacity,
      snapshot_date |-> 0] : i \in DOMAIN seed.older}

AllPairs ==
    ConcatAll([id \in 1..NumStations |->
                  [i \in 1..Len(FUEL_TYPES) |-> <<id, FUEL_TYPES[i]>>]])

Init ==
    /\ today = InitialDay
    /\ clock = OPENING_HOUR
    \* every station but the last is active
    /\ \E last_active \in BOOLEAN :
          stations = [id \in StationIds |->
                        [id |-> id,
                         magna_capacity |-> SEED_CAPACITIES[id][1],
                         premium_capacity |-> SEED_CAPACITIES[id][2],
                         diesel_capacity |-> SEED_CAPACITIES[id][3],
                         active |-> (id < NumStations \/ last_active)]]
    \* the stations take the two seeds in turn, from either one
    /\ \E first \in 1..Len(StationSeeds) :
          LET seeds == [id \in StationIds |->
                           StationSeeds[((id + first) % Len(StationSeeds)) + 1]]
          IN
          /\ transactions =
                InsertAll(<<>>, ConcatAll([k \in 1..Len(AllPairs) |->
                    SeedTransactions(seeds[AllPairs[k][1]][AllPairs[k][2]],
                                     AllPairs[k][1], AllPairs[k][2])]))
          /\ snapshots =
                UNION {SeedSnapshots(seeds[id][f], id, f,
                                     Capacity([magna_capacity |-> SEED_CAPACITIES[id][1],
                                               premium_capacity |-> SEED_CAPACITIES[id][2],
                                               diesel_capacity |-> SEED_CAPACITIES[id][3]], f))
                       : <<id, f>> \in StationIds \X FuelSet}
    /\ predictions = <<>>
    /\ result = [status |-> "none", recs |-> <<>>,
                 horizon_hours |-> DEFAULT_HORIZON_HOURS, today |-> InitialDay]
    /\ requests = 0
    /\ runs = 0
    /\ call = [fn |-> "none"]
    /\ sessions = {}

(***************************************************************************)
(* app.py: api_record_transaction                                          *)
(***************************************************************************)
SoldLiters == {3000}
ReceivedLiters == {4500, NegInf}
RecordFuels == {"magna", "premium"}

\* float addition and subtraction with -inf
AddLiters(a, b) == IF a = NegInf \/ b = NegInf THEN NegInf ELSE a + b
\* max(0, a - b) for finite b
SubLitersFloor(a, b) == IF a = NegInf THEN 0 ELSE Max(0, a - b)

RecordTransaction(station_id, fuel_type, transaction_type, liters) ==
    /\ requests + runs < MaxRequests
    /\ station_id \in DOMAIN stations
    /\ LET station == stations[station_id]
           mine == {sn \in snapshots : /\ sn.station_id = station_id
                                       /\ sn.fuel_type = fuel_type
                                       /\ sn.snapshot_date = today}
       IN  /\ transactions' = InsertRow(transactions,
                  [station_id |-> station_id, fuel_type |-> fuel_type,
                   transaction_type |-> transaction_type,
                   liters |-> liters, day |-> today, hour |-> clock])
           /\ IF mine # {}
              THEN LET snap == CHOOSE sn \in mine : TRUE
                   IN  snapshots' = (snapshots \ {snap}) \cup
                          {[snap EXCEPT !.liters_on_hand =
                               IF transaction_type = "received"
                               THEN AddLiters(snap.liters_on_hand, liters)
                               ELSE SubLitersFloor(snap.liters_on_hand, liters)]}
              ELSE snapshots' = snapshots \cup
                      {[station_id |-> station_id, fuel_type |-> fuel_type,
                        liters_on_hand |-> IF transaction_type = "received"
                                           THEN liters ELSE 0,
                        capacity |-> Capacity(station, fuel_type),
                        snapshot_date |-> today]}
    /\ requests' = requests + 1
    /\ UNCHANGED <<today, clock, stations, predictions, result, runs, call, sessions>>

RecordSold ==
    \E station_id \in StationIds, fuel_type \in RecordFuels, liters \in SoldLiters :
        RecordTransaction(station_id, fuel_type, "sold", liters)

RecordReceived ==
    \E station_id \in StationIds, fuel_type \in RecordFuels, liters \in ReceivedLiters :
        RecordTransaction(station_id, fuel_type, "received", liters)

(***************************************************************************)
(* The calendar: date.today() moves to the next day                        *)
(***************************************************************************)
AdvanceDay ==
    /\ today < LastDay
    /\ today' = today + 1
    /\ UNCHANGED <<clock, stations, transactions, snapshots, predictions, result,
                   requests, runs, call, sessions>>

(***************************************************************************)
(* app.py: api_recommendations -> generate_order_recommendations           *)
(***************************************************************************)
Hours == {60, 480}

\* A slip: a pair with a row that is not fulfilled yet gets no second row.
SavePredictionsOnce(rows, recs) ==
    rows \o SelectSeq([i \in 1..Len(recs) |-> PredictionRow(recs[i])],
                      LAMBDA row : \A k \in DOMAIN rows :
                                      \/ rows[k].station_id # row.station_id
                                      \/ rows[k].fuel_type # row.fuel_type
                                      \/ rows[k].fulfilled)

\* db.session.add(pred) for every recommendation of the call, then
\* db.session.commit(): the rows already stored are neither read nor changed
SavePredictions(rows, recs) ==
    rows \o [i \in 1..Len(recs) |-> PredictionRow(recs[i])]

GenerateOrderRecommendations(horizon_hours) ==
    /\ requests + runs < MaxRequests
    /\ LET out == RunPairs(ActivePairs(stations, 1), <<>>, stations, horizon_hours,
                           today, clock, transactions, snapshots)
       IN  IF out.kind = "raise"
           \* the exception leaves the function before db.session.commit()
           THEN /\ result' = [status |-> "error", recs |-> <<>>,
                              horizon_hours |-> horizon_hours, today |-> today]
                /\ predictions' = predictions
           ELSE /\ result' = [status |-> "ok", recs |-> SortRecs(out.recs),
                              horizon_hours |-> horizon_hours, today |-> today]
                /\ predictions' = SavePredictions(predictions, out.recs)
    /\ runs' = runs + 1
    /\ UNCHANGED <<today, clock, stations, transactions, snapshots, requests, call, sessions>>

Generate == \E horizon_hours \in Hours : GenerateOrderRecommendations(horizon_hours)

Next == RecordSold \/ RecordReceived \/ AdvanceDay \/ Generate

Spec == Init /\ [][Next]_vars

(***************************************************************************)
(* Direct calls of calculate_days_until_empty, as api_station_prediction   *)
(* and generate_order_recommendations make them                            *)
(***************************************************************************)
DepLiters == {-1000, 0, 3000, 5000, 6000, 6001, 9000, 40000}
DepDemands == {-500, 0, 1, 2000, 3000}
DepCapacities == {0, 20000, 40000}
DepThresholds == {THRESHOLD_PCT, 25}

SeedStations ==
    [id \in StationIds |->
        [id |-> id,
         magna_capacity |-> SEED_CAPACITIES[id][1],
         premium_capacity |-> SEED_CAPACITIES[id][2],
         diesel_capacity |-> SEED_CAPACITIES[id][3],
         active |-> TRUE]]

\* a store with the stations and no other row
EmptyStore ==
    /\ today = InitialDay
    /\ clock = OPENING_HOUR
    /\ stations = SeedStations
    /\ transactions = <<>>
    /\ snapshots = {}
    /\ predictions = <<>>
    /\ result = [status |-> "none", recs |-> <<>>,
                 horizon_hours |-> DEFAULT_HORIZON_HOURS, today |-> InitialDay]
    /\ requests = 0
    /\ runs = 0

InitDepletion == EmptyStore /\ call = [fn |-> "none"] /\ sessions = {}

CallCalculateDays ==
    \E current_liters \in DepLiters, avg_daily_demand \in DepDemands,
       min_threshold_pct \in DepThresholds, capacity \in DepCapacities :
        /\ call' = [fn |-> "calculate_days_until_empty",
                    current_liters |-> current_liters,
                    avg_daily_demand |-> avg_daily_demand,
                    min_threshold_pct |-> min_threshold_pct,
                    capacity |-> capacity,
                    ret |-> CalculateDaysUntilEmpty(current_liters, avg_daily_demand,
                                                    min_threshold_pct, capacity)]
        /\ UNCHANGED <<today, clock, stations, transactions, snapshots, predictions,
                       result, requests, runs, sessions>>

NextDepletion == CallCalculateDays

SpecDepletion == InitDepletion /\ [][NextDepletion]_vars

(***************************************************************************)
(* Runs of generate_order_recommendations over the store of a busy         *)
(* station: the first station sells the same liters of a fuel every day,   *)
(* up to a sixth of the tank and more, a different demand for each fuel;   *)
(* the other stations have no data                                         *)
(***************************************************************************)
BusyDemands == {2000, 3600, 8000}
BusyLevels == {3100, 12000, 20000}

BusyTransactions(demand) ==
    ConcatAll([i \in 1..Len(FUEL_TYPES) |->
        [k \in 1..(InitialDay + 1) |->
            [station_id |-> 1, fuel_type |-> FUEL_TYPES[i],
             transaction_type |-> "sold",
             liters |-> demand[FUEL_TYPES[i]],
             day |-> k - 1, hour |-> BLOCK_HOURS[1]]]])

BusySnapshots(level) ==
    {[station_id |-> 1, fuel_type |-> f,
      liters_on_hand |-> level[f],
      capacity |-> Capacity(SeedStations[1], f),
      snapshot_date |-> InitialDay] : f \in FuelSet}

InitBusy ==
    /\ today = InitialDay
    /\ clock = OPENING_HOUR
    /\ stations = SeedStations
    /\ \E demand \in [FuelSet -> BusyDemands], level \in [FuelSet -> BusyLevels] :
          /\ Cardinality({demand[f] : f \in FuelSet}) = Cardinality(FuelSet)
          /\ transactions = InsertAll(<<>>, BusyTransactions(demand))
          /\ snapshots = BusySnapshots(level)
    /\ predictions = <<>>
    /\ result = [status |-> "none", recs |-> <<>>,
                 horizon_hours |-> DEFAULT_HORIZON_HOURS, today |-> InitialDay]
    /\ requests = 0
    /\ runs = 0
    /\ call = [fn |-> "none"]
    /\ sessions = {}

NextBusy == Generate

SpecBusy == InitBusy /\ [][NextBusy]_vars

(***************************************************************************)
(* Direct calls of predict_demand, as api_station_prediction makes them,   *)
(* over a store that holds one pair's sales                                *)
(***************************************************************************)
SeriesDays == 5
SeriesValues == {0, 1000, 3000}

\* the sold rows of a series: one per day that has a sale
RECURSIVE SeriesTransactions(_, _, _)
SeriesTransactions(sale_days, series, d) ==
    IF d >= SeriesDays THEN <<>>
    ELSE (IF d \notin sale_days THEN <<>>
          ELSE <<[station_id |-> 1, fuel_type |-> "magna", transaction_type |-> "sold",
                  liters |-> series[d], day |-> d, hour |-> BLOCK_HOURS[1]]>>)
         \o SeriesTransactions(sale_days, series, d + 1)

InitForecast ==
    /\ today = SeriesDays - 1
    /\ clock = OPENING_HOUR
    /\ stations = SeedStations
    /\ \E sale_days \in SUBSET (0..(SeriesDays - 1)),
          series \in [0..(SeriesDays - 1) -> SeriesValues] :
          transactions =
              InsertAll(<<>>,
                  <<[station_id |-> 1, fuel_type |-> "magna",
                     transaction_type |-> "received", liters |-> 5000, day |-> 0,
                     hour |-> BLOCK_HOURS[1]]>>
                  \o SeriesTransactions(sale_days, series, 0))
    /\ snapshots = {}
    /\ predictions = <<>>
    /\ result = [status |-> "none", recs |-> <<>>,
                 horizon_hours |-> DEFAULT_HORIZON_HOURS, today |-> SeriesDays - 1]
    /\ requests = 0
    /\ runs = 0
    /\ call = [fn |-> "none"]
    /\ sessions = {}

\* the horizons asked for (horizon_days)
HorizonDays == {0, 3, DEFAULT_HORIZON_DAYS}

PredictDemandCall(station_id, fuel_type, horizon_days) ==
        /\ call' = [fn |-> "predict_demand",
                    station_id |-> station_id,
                    fuel_type |-> fuel_type,
                    horizon_days |-> horizon_days,
                    today |-> today,
                    history |-> GetDailySalesHistory(transactions, station_id,
                                                     fuel_type, today, clock),
                    ret |-> PredictDemand(GetDailySalesHistory(transactions, station_id,
                                                               fuel_type, today, clock),
                                          horizon_days, today)]
        /\ UNCHANGED <<today, clock, stations, transactions, snapshots, predictions,
                       result, requests, runs, sessions>>

CallPredictDemand ==
    \E station_id \in StationIds, fuel_type \in FuelSet, horizon_days \in HorizonDays :
        PredictDemandCall(station_id, fuel_type, horizon_days)

NextForecast == CallPredictDemand

SpecForecast == InitForecast /\ [][NextForecast]_vars

(***************************************************************************)
(* Direct reads over a seeded store while time passes: the history query,  *)
(* predict_demand and get_demand_forecast as the api_* handlers call them  *)
(***************************************************************************)
\* the last seeded day of the calendar store
LastSeedDay == 14

\* A pair's series: n days of sales ending on the last seeded day, of
\* base + step * k + weekly * weekday + alt * (day % 2) liters on its k-th day
CalendarSeed(n, base, step, weekly, alt) ==
    [n |-> n, base |-> base, step |-> step, weekly |-> weekly, alt |-> alt]

SeriesWeekly == CalendarSeed(15, 1000, 0, 500, 0)
SeriesSteady == CalendarSeed(15, 2000, 0, 0, 0)
SeriesWild == CalendarSeed(14, 0, 0, 0, 6000)
SeriesIdle == CalendarSeed(14, 0, 0, 0, 0)
SeriesWeek == CalendarSeed(7, 3000, 0, 0, 1000)
SeriesFalling == CalendarSeed(6, 5000, -1000, 0, 0)
SeriesShort == CalendarSeed(3, 1000, 500, 0, 2000)
SeriesFlatWeek == CalendarSeed(7, 1000, 0, 0, 0)
SeriesTwo == CalendarSeed(2, 2000, 0, 0, 0)
SeriesNone == CalendarSeed(0, 0, 0, 0, 0)

\* the series the first station may hold, and those of every other station
CalendarSeeds ==
    << [magna |-> SeriesWeekly, premium |-> SeriesWeek, diesel |-> SeriesShort],
       [magna |-> SeriesWild, premium |-> SeriesSteady, diesel |-> SeriesTwo],
       [magna |-> SeriesIdle, premium |-> SeriesFalling, diesel |-> SeriesNone] >>
OtherSeeds == [magna |-> SeriesTwo, premium |-> SeriesFlatWeek, diesel |-> SeriesNone]

\* the liters sold on a day of a series
SeriesLiters(seed, day) ==
    seed.base + seed.step * (day - (LastSeedDay - seed.n + 1))
        + seed.weekly * Weekday(day) + seed.alt * (day % 2)

\* the rows of a series: a day's sales in a morning and an afternoon block,
\* and a delivery before the first block of its first day
CalendarTransactions(seed, station_id, fuel_type) ==
    ConcatAll([k \in 1..seed.n |->
        LET day == LastSeedDay - seed.n + k
            total == SeriesLiters(seed, day)
        IN  (IF k = 1
             THEN <<[station_id |-> station_id, fuel_type |-> fuel_type,
                     transaction_type |-> "received", liters |-> 10000,
                     day |-> day, hour |-> BLOCK_HOURS[1] - 2]>>
             ELSE <<>>)
            \o
            <<[station_id |-> station_id, fuel_type |-> fuel_type,
               transaction_type |-> "sold", liters |-> total \div 2,
               day |-> day, hour |-> BLOCK_HOURS[1]],
              [station_id |-> station_id, fuel_type |-> fuel_type,
               transaction_type |-> "sold", liters |-> total - (total \div 2),
               day |-> day, hour |-> BLOCK_HOURS[3]]>>])

\* the end-of-day snapshots of a series: one per day of sales
CalendarSnapshots(seed, station_id, fuel_type, capacity) ==
    {[station_id |-> station_id, fuel_type |-> fuel_type,
      liters_on_hand |-> 20000 - 1000 * k, capacity |-> capacity,
      snapshot_date |-> LastSeedDay - seed.n + k] : k \in 1..seed.n}

InitCalendar ==
    /\ today = LastSeedDay
    /\ clock = OPENING_HOUR
    /\ stations = SeedStations
    /\ \E first \in 1..Len(CalendarSeeds) :
          LET seeds == [id \in StationIds |->
                           IF id = 1 THEN CalendarSeeds[first] ELSE OtherSeeds]
          IN
          /\ transactions =
                InsertAll(<<>>, ConcatAll([k \in 1..Len(AllPairs) |->
                    CalendarTransactions(seeds[AllPairs[k][1]][AllPairs[k][2]],
                                         AllPairs[k][1], AllPairs[k][2])]))
          /\ snapshots =
                UNION {CalendarSnapshots(seeds[id][f], id, f,
                                         Capacity(SeedStations[id], f))
                       : <<id, f>> \in StationIds \X FuelSet}
    /\ predictions = <<>>
    /\ result = [status |-> "none", recs |-> <<>>,
                 horizon_hours |-> DEFAULT_HORIZON_HOURS, today |-> LastSeedDay]
    /\ requests = 0
    /\ runs = 0
    /\ call = [fn |-> "none"]
    /\ sessions = {}

\* the dates and hours at which requests arrive: the last seeded day, the
\* next day, and three dates up to 31 days after the first seeded day, the
\* first of them a week before the second
CalendarDays ==
    {LastSeedDay, LastSeedDay + 1, LastSeedDay - 21 + HISTORY_DAYS,
     LastSeedDay - 14 + HISTORY_DAYS, LastSeedDay - 13 + HISTORY_DAYS}
ClockHours == {OPENING_HOUR, 21}

\* time passes between two requests
TimePasses ==
    \E day \in CalendarDays, hour \in ClockHours :
        /\ day > today \/ (day = today /\ hour > clock)
        /\ today' = day
        /\ clock' = hour
        /\ UNCHANGED <<stations, transactions, snapshots, predictions, result,
                       requests, runs, call, sessions>>

CallGetDailySalesHistory ==
    \E station_id \in StationIds, fuel_type \in FuelSet :
        /\ call' = [fn |-> "get_daily_sales_history",
                    station_id |-> station_id,
                    fuel_type |-> fuel_type,
                    today |-> today,
                    clock |-> clock,
                    ret |-> GetDailySalesHistory(transactions, station_id, fuel_type,
                                                 today, clock)]
        /\ UNCHANGED <<today, clock, stations, transactions, snapshots, predictions,
                       result, requests, runs, sessions>>

\* predict_demand(station_id, fuel_type) with the default horizon
CallPredictDemandWeek ==
    \E station_id \in StationIds, fuel_type \in FuelSet :
        PredictDemandCall(station_id, fuel_type, DEFAULT_HORIZON_DAYS)

\* the station_id argument of the forecast request: absent (0), the first
\* station, or an id that no station has
ForecastStationIds == {0, 1, NumStations + 1}
ForecastDays == {3}

\* api_forecast -> get_demand_forecast
CallGetDemandForecast ==
    \E station_id \in ForecastStationIds, days \in ForecastDays :
        /\ call' = [fn |-> "get_demand_forecast",
                    station_id |-> station_id,
                    days |-> days,
                    today |-> today,
                    clock |-> clock,
                    ret |-> GetDemandForecast(stations, transactions, station_id, days,
                                              today, clock)]
        /\ UNCHANGED <<today, clock, stations, transactions, snapshots, predictions,
                       result, requests, runs, sessions>>

NextCalendar ==
    \/ TimePasses
    \/ CallGetDailySalesHistory
    \/ CallPredictDemandWeek
    \/ CallGetDemandForecast

SpecCalendar == InitCalendar /\ [][NextCalendar]_vars

(***************************************************************************)
(* app.py: api_record_transaction, requests served at the same time.       *)
(* Each request has its own session.  The store is the SQLite file of      *)
(* app.py: the query of the snapshot first flushes the INSERT of the       *)
(* transaction, which takes the write lock of the file until the commit or *)
(* the rollback of the session.  Snapshot rows carry their primary key.    *)
(***************************************************************************)
RequestStations == {1}
RequestLiters == [sold |-> 3000, received |-> 4500]

\* the snapshots that an earlier day left: one per fuel of the first station
EarlierSnapshots ==
    {[id |-> i, station_id |-> 1, fuel_type |-> FUEL_TYPES[i],
      liters_on_hand |-> 20000,
      capacity |-> Capacity(SeedStations[1], FUEL_TYPES[i]),
      snapshot_date |-> InitialDay - 1] : i \in 1..Len(FUEL_TYPES)}

InitRequests ==
    /\ today = InitialDay
    /\ clock = OPENING_HOUR
    /\ stations = SeedStations
    /\ transactions = <<>>
    /\ snapshots = EarlierSnapshots
    /\ predictions = <<>>
    /\ result = [status |-> "none", recs |-> <<>>,
                 horizon_hours |-> DEFAULT_HORIZON_HOURS, today |-> InitialDay]
    /\ requests = 0
    /\ runs = 0
    /\ call = [fn |-> "none"]
    /\ sessions = {}

\* the request arrives: the station is found and the transaction is added to
\* the session
Arrive(station_id, fuel_type, transaction_type) ==
    /\ requests < MaxRequests
    /\ station_id \in DOMAIN stations
    /\ sessions' = sessions \cup
          {[sid |-> requests + 1,
            pc |-> "added",
            tx |-> [station_id |-> station_id, fuel_type |-> fuel_type,
                    transaction_type |-> transaction_type,
                    liters |-> RequestLiters[transaction_type],
                    day |-> today, hour |-> clock],
            snap_id |-> 0, liters_on_hand |-> 0, capacity |-> 0,
            snapshot_date |-> 0]}
    /\ requests' = requests + 1
    /\ UNCHANGED <<today, clock, stations, transactions, snapshots, predictions,
                   result, runs, call>>

ArriveAny ==
    \E station_id \in RequestStations, fuel_type \in RecordFuels,
       transaction_type \in {"sold", "received"} :
        Arrive(station_id, fuel_type, transaction_type)

\* A slip: the write lock is not waited for.
WriteLockIgnored(ss) == TRUE

\* no session holds the write lock of the file
WriteLockFree(ss) == \A s \in ss : s.pc # "queried"

\* the flush of the transaction takes the write lock; the snapshot of the day
\* is read and changed in the session, or a new one is added to the session
QuerySnapshot(s) ==
    /\ s.pc = "added"
    /\ WriteLockFree(sessions)
    /\ LET mine == {sn \in snapshots : /\ sn.station_id = s.tx.station_id
                                       /\ sn.fuel_type = s.tx.fuel_type
                                       /\ sn.snapshot_date = today}
       IN  sessions' = (sessions \ {s}) \cup
              {IF mine # {}
               THEN LET snap == CHOOSE sn \in mine : \A o \in mine : sn.id <= o.id
                    IN  [s EXCEPT !.pc = "queried",
                                  !.snap_id = snap.id,
                                  !.liters_on_hand =
                                      IF s.tx.transaction_type = "received"
                                      THEN AddLiters(snap.liters_on_hand, s.tx.liters)
                                      ELSE SubLitersFloor(snap.liters_on_hand, s.tx.liters),
                                  !.capacity = snap.capacity,
                                  !.snapshot_date = today]
               ELSE [s EXCEPT !.pc = "queried",
                              !.liters_on_hand =
                                  IF s.tx.transaction_type = "received"
                                  THEN s.tx.liters ELSE 0,
                              !.capacity = Capacity(stations[s.tx.station_id],
                                                    s.tx.fuel_type),
                              !.snapshot_date = today]}
    /\ UNCHANGED <<today, clock, stations, transactions, snapshots, predictions,
                   result, requests, runs, call>>

QueryAny == \E s \in sessions : QuerySnapshot(s)

\* the lock is still held when the busy timeout ends: the flush raises
\* "database is locked" and the session is rolled back
DatabaseLocked(s) ==
    /\ s.pc = "added"
    /\ ~WriteLockFree(sessions)
    /\ sessions' = sessions \ {s}
    /\ UNCHANGED <<today, clock, stations, transactions, snapshots, predictions,
                   result, requests, runs, call>>

LockedAny == \E s \in sessions : DatabaseLocked(s)

\* the UniqueConstraint of InventorySnapshot
UniqueViolation(snaps, s) ==
    \E sn \in snaps : /\ sn.station_id = s.tx.station_id
                      /\ sn.fuel_type = s.tx.fuel_type
                      /\ sn.snapshot_date = s.snapshot_date

NextSnapshotId(snaps) ==
    IF snaps = {} THEN 1
    ELSE 1 + (CHOOSE i \in {sn.id : sn \in snaps} : \A sn \in snaps : sn.id <= i)

\* db.session.commit(): the UPDATE or the INSERT of the snapshot; an INSERT
\* that the constraint refuses raises IntegrityError and the session, with its
\* transaction row, is rolled back
Commit(s) ==
    /\ s.pc = "queried"
    /\ IF s.snap_id > 0
       THEN /\ snapshots' =
                  {IF sn.id = s.snap_id
                   THEN [sn EXCEPT !.liters_on_hand = s.liters_on_hand]
                   ELSE sn : sn \in snapshots}
            /\ transactions' = InsertRow(transactions, s.tx)
       ELSE IF UniqueViolation(snapshots, s)
            THEN UNCHANGED <<transactions, snapshots>>
            ELSE /\ snapshots' = snapshots \cup
                        {[id |-> NextSnapshotId(snapshots),
                          station_id |-> s.tx.station_id,
                          fuel_type |-> s.tx.fuel_type,
                          liters_on_hand |-> s.liters_on_hand,
                          capacity |-> s.capacity,
                          snapshot_date |-> s.snapshot_date]}
                 /\ transactions' = InsertRow(transactions, s.tx)
    /\ sessions' = sessions \ {s}
    /\ UNCHANGED <<today, clock, stations, predictions, result, requests, runs, call>>

CommitAny == \E s \in sessions : Commit(s)

\* the number of requests that have ended, by a commit or by an error
Served == requests - Cardinality(sessions)

\* api_station_prediction -> get_current_inventory
CallGetCurrentInventory ==
    \E station_id \in StationIds, fuel_type \in FuelSet :
        /\ call' = [fn |-> "get_current_inventory",
                    station_id |-> station_id,
                    fuel_type |-> fuel_type,
                    served |-> Served,
                    ret |-> GetCurrentInventory(snapshots, station_id, fuel_type)]
        /\ UNCHANGED <<today, clock, stations, transactions, snapshots, predictions,
                       result, requests, runs, sessions>>

NextRequests ==
    \/ ArriveAny
    \/ QueryAny
    \/ LockedAny
    \/ CommitAny
    \/ AdvanceDay
    \/ CallGetCurrentInventory

SpecRequests == InitRequests /\ [][NextRequests]_vars

(***************************************************************************)
(* Properties                                                              *)
(***************************************************************************)
\* a step that is a generate_order_recommendations call
GenerateStep == runs' = runs + 1

\* the Prediction rows the last successful call committed
LastRows == LastN(predictions, Len(result.recs))

\* the Prediction rows a step adds
NewRows == SubSeq(predictions', Len(predictions) + 1, Len(predictions'))

\* the store is still the seeded one, and the one the last call read
StoreAsRead == requests = 0 /\ today = result.today

\* days_left of a recommendation, from the liters, capacity and demand it
\* reports, as <<numerator, denominator>>
RecDaysLeft(r) ==
    LET usable100 == r.current_liters * 100 - r.capacity * 15
    IN  IF usable100 <= 0 THEN <<0, 1>>
        ELSE IF r.avg_daily_demand <= 0 THEN <<999, 1>>
        ELSE <<usable100, 100 * r.avg_daily_demand>>

\* the unrounded quantity of a recommendation, times 100
RecOrder100(r) ==
    LET raw == r.capacity * 85 - r.current_liters * 100 + r.avg_daily_demand * 100
    IN  IF raw > 0 THEN raw ELSE 0

\* C1: every recommendation returned and every Prediction row persisted has
\* a quantity that is a multiple of 500 and at least 1000.
C1_QuantityIsMultipleOf500AndAtLeast1000 ==
    /\ \A i \in 1..Len(result.recs) :
          /\ result.recs[i].recommended_liters % 500 = 0
          /\ result.recs[i].recommended_liters >= 1000
    /\ \A j \in 1..Len(predictions) :
          /\ predictions[j].recommended_liters % 500 = 0
          /\ predictions[j].recommended_liters >= 1000

\* a run over the seeded store that returns recommendations and leaves out
\* station 2's magna, whose quantity rounds to 500
C1_Witness ==
    /\ result.status = "ok" /\ StoreAsRead
    /\ result.horizon_hours = 480
    /\ Len(result.recs) >= 2 /\ Len(predictions) >= 2
    /\ stations[2].active
    /\ \E sn \in snapshots :
          /\ sn.station_id = 2 /\ sn.fuel_type = "magna" /\ sn.liters_on_hand = 35500
          /\ sn.snapshot_date = today
    /\ \A i \in 1..Len(result.recs) :
          ~(result.recs[i].station_id = 2 /\ result.recs[i].fuel_type = "magna")

\* C2: when one pair fails during a run, the run still succeeds and returns
\* and persists the recommendation of every other pair.
C2_PairFailureDoesNotStopTheRun ==
    [][GenerateStep =>
        /\ result'.status = "ok"
        /\ \A k \in 1..Len(ActivePairs(stations, 1)) :
              LET p == ActivePairs(stations, 1)[k]
                  out == ProcessPair(stations[p[1]], p[2], result'.horizon_hours,
                                     today, clock, transactions, snapshots)
              IN  out.kind = "rec" =>
                     /\ \E i \in 1..Len(result'.recs) : result'.recs[i] = out.rec
                     /\ \E j \in 1..Len(NewRows) : NewRows[j] = PredictionRow(out.rec)
    ]_vars

\* C3: a recommendation is emitted only if days_left <= horizon_hours / 24 + 2,
\* and the rows persisted by the call are those of the emitted pairs.
C3_EmittedOnlyWithinHorizonPlusTwo ==
    /\ \A i \in 1..Len(result.recs) :
          LET days_left == RecDaysLeft(result.recs[i])
          IN  24 * days_left[1] <= (result.horizon_hours + 48) * days_left[2]
    /\ \A j \in 1..Len(LastRows) :
          \E i \in 1..Len(result.recs) :
              /\ result.recs[i].station_id = LastRows[j].station_id
              /\ result.recs[i].fuel_type = LastRows[j].fuel_type

\* a recommendation whose days_left is exactly horizon_hours / 24 + 2
C3_Witness ==
    /\ result.status = "ok"
    /\ \E i \in 1..Len(result.recs) :
          LET days_left == RecDaysLeft(result.recs[i])
          IN  /\ days_left[1] > 0
              /\ 24 * days_left[1] = (result.horizon_hours + 48) * days_left[2]

\* C4: calculate_days_until_empty is 0 when usable <= 0, whatever the demand,
\* else 999 when the demand is <= 0, else usable / demand; it is never
\* negative and never divides by zero.
C4_DaysUntilEmptyByCases ==
    call.fn = "calculate_days_until_empty" =>
        LET usable100 == call.current_liters * 100 - call.capacity * call.min_threshold_pct
        IN  /\ call.ret[2] > 0
            /\ call.ret[1] >= 0
            /\ usable100 <= 0 => call.ret = <<0, 1>>
            /\ (usable100 > 0 /\ call.avg_daily_demand <= 0) => call.ret = <<999, 1>>
            /\ (usable100 > 0 /\ call.avg_daily_demand > 0) =>
                  Reduced(call.ret) = Reduced(<<usable100, 100 * call.avg_daily_demand>>)

\* a call below the threshold with no demand
C4_Witness ==
    /\ call.fn = "calculate_days_until_empty"
    /\ call.current_liters = 5000 /\ call.capacity = 40000 /\ call.min_threshold_pct = 15
    /\ call.avg_daily_demand = 0
    /\ call.ret = <<0, 1>>

\* C5: the quantity of every recommendation is a multiple of 500 within 250
\* of max(0, 0.85 * capacity - current_liters + avg_daily_demand), and is
\* never below 1000.
C5_QuantityIsNearestMultipleOf500 ==
    \A i \in 1..Len(result.recs) :
        LET r == result.recs[i]
        IN  /\ r.recommended_liters % 500 = 0
            /\ r.recommended_liters * 100 - RecOrder100(r) <= 25000
            /\ RecOrder100(r) - r.recommended_liters * 100 <= 25000
            /\ r.recommended_liters >= 1000

\* a recommendation whose quantity was rounded up
C5_Witness ==
    \E i \in 1..Len(result.recs) :
        result.recs[i].recommended_liters * 100 > RecOrder100(result.recs[i])

\* C6: the urgency is urgent if days_left <= 1, high if 1 < days_left <= 2,
\* normal if days_left > 2.
C6_UrgencyFollowsDaysLeft ==
    \A i \in 1..Len(result.recs) :
        LET r == result.recs[i]
            days_left == RecDaysLeft(r)
        IN  /\ r.urgency \in {"urgent", "high", "normal"}
            /\ r.urgency = "urgent" <=> days_left[1] <= days_left[2]
            /\ r.urgency = "high" <=> /\ days_left[1] > days_left[2]
                                      /\ days_left[1] <= 2 * days_left[2]
            /\ r.urgency = "normal" <=> days_left[1] > 2 * days_left[2]

\* a list with the three urgencies, one of them at days_left = 1 exactly
C6_Witness ==
    /\ \E i \in 1..Len(result.recs) :
          /\ result.recs[i].urgency = "urgent"
          /\ RecDaysLeft(result.recs[i])[1] = RecDaysLeft(result.recs[i])[2]
    /\ \E i \in 1..Len(result.recs) : result.recs[i].urgency = "high"
    /\ \E i \in 1..Len(result.recs) : result.recs[i].urgency = "normal"

\* C7: urgent is delivered tomorrow at 06:00, high tomorrow at 08:00, normal
\* on today + floor(days_left) - 1 at 07:00; a pair at or below 15% of its
\* capacity is urgent, with days_left 0.
C7_DeliveryFollowsUrgency ==
    \A i \in 1..Len(result.recs) :
        LET r == result.recs[i]
            days_left == RecDaysLeft(r)
        IN  /\ r.urgency = "urgent" =>
                  r.recommended_date = [day |-> result.today + 1, hour |-> 6]
            /\ r.urgency = "high" =>
                  r.recommended_date = [day |-> result.today + 1, hour |-> 8]
            /\ r.urgency = "normal" =>
                  r.recommended_date =
                      [day |-> result.today + (days_left[1] \div days_left[2]) - 1,
                       hour |-> 7]
            /\ r.current_liters * 100 <= r.capacity * 15 =>
                  /\ r.days_until_empty = 0
                  /\ r.urgency = "urgent"
                  /\ r.recommended_date = [day |-> result.today + 1, hour |-> 6]

\* the pair with capacity 40000, 5000 liters and demand 2000, and a normal
\* recommendation in the same list
C7_Witness ==
    /\ \E i \in 1..Len(result.recs) :
          LET r == result.recs[i]
          IN  /\ r.capacity = 40000 /\ r.current_liters = 5000
              /\ r.avg_daily_demand = 2000
              /\ r.urgency = "urgent"
              /\ r.recommended_date = [day |-> result.today + 1, hour |-> 6]
    /\ \E i \in 1..Len(result.recs) :
          /\ result.recs[i].urgency = "normal"
          /\ result.recs[i].recommended_date.day > result.today + 1

\* C8: the returned list is ordered by urgency rank and, within a rank, by
\* ascending days_until_empty.
C8_ListOrderedByUrgencyThenDays ==
    \A i, j \in 1..Len(result.recs) :
        i < j =>
            LET a == result.recs[i]
                b == result.recs[j]
                rank == [u \in {"urgent", "high", "normal"} |->
                            IF u = "urgent" THEN 0 ELSE IF u = "high" THEN 1 ELSE 2]
            IN  \/ rank[a.urgency] < rank[b.urgency]
                \/ /\ rank[a.urgency] = rank[b.urgency]
                   /\ a.days_until_empty <= b.days_until_empty

\* a list in which station 2's urgent entry comes before station 1's less
\* urgent one, and two entries of one rank are in the reverse of loop order
C8_Witness ==
    /\ \E i, j \in 1..Len(result.recs) :
          /\ i < j
          /\ result.recs[i].station_id = 2 /\ result.recs[i].urgency = "urgent"
          /\ result.recs[j].station_id = 1 /\ result.recs[j].urgency # "urgent"
    /\ \E i, j \in 1..Len(result.recs) :
          /\ i < j
          /\ result.recs[i].urgency = result.recs[j].urgency
          /\ result.recs[i].days_until_empty < result.recs[j].days_until_empty
          /\ result.recs[i].station_id > result.recs[j].station_id

\* the dates on which the store holds a sale of the pair within the window
SaleDays(station_id, fuel_type) ==
    {t.day : t \in {r \in DOMAIN transactions :
                        /\ r.station_id = station_id
                        /\ r.fuel_type = fuel_type
                        /\ r.transaction_type = "sold"
                        /\ r.day >= today - 30}}

\* the pair has no snapshot, or fewer than 3 days of sales
MissingData(station_id, fuel_type) ==
    \/ \A sn \in snapshots : ~(sn.station_id = station_id /\ sn.fuel_type = fuel_type)
    \/ Cardinality(SaleDays(station_id, fuel_type)) < 3

\* C9: a pair without a snapshot or without a forecast is skipped: it is in
\* neither the returned list nor the new rows, and unless some other pair
\* raises, the call succeeds and every other pair is processed.
C9_MissingDataSkipsOnlyThatPair ==
    [][GenerateStep =>
        LET pairs == ActivePairs(stations, 1)
        IN  /\ \A k \in 1..Len(pairs) :
                  MissingData(pairs[k][1], pairs[k][2]) =>
                     /\ \A i \in 1..Len(result'.recs) :
                           ~(/\ result'.recs[i].station_id = pairs[k][1]
                             /\ result'.recs[i].fuel_type = pairs[k][2])
                     /\ \A j \in 1..Len(NewRows) :
                           ~(/\ NewRows[j].station_id = pairs[k][1]
                             /\ NewRows[j].fuel_type = pairs[k][2])
            /\ (\A sn \in snapshots : sn.liters_on_hand # NegInf) =>
                  /\ result'.status = "ok"
                  /\ \A k \in 1..Len(pairs) :
                        LET out == ProcessPair(stations[pairs[k][1]], pairs[k][2],
                                               result'.horizon_hours, today, clock,
                                               transactions, snapshots)
                        IN  out.kind = "rec" =>
                               /\ \E i \in 1..Len(result'.recs) : result'.recs[i] = out.rec
                               /\ \E j \in 1..Len(NewRows) :
                                     NewRows[j] = PredictionRow(out.rec)
    ]_vars

\* a successful call over a store in which an active pair has no snapshot,
\* another has two days of sales, and pairs after them in the loops are
\* recommended
C9_Witness ==
    /\ result.status = "ok" /\ StoreAsRead
    /\ stations[2].active
    /\ \A sn \in snapshots : ~(sn.station_id = 2 /\ sn.fuel_type = "premium")
    /\ Cardinality(SaleDays(2, "premium")) >= 3
    /\ Cardinality(SaleDays(1, "premium")) = 2
    /\ \E sn \in snapshots : sn.station_id = 1 /\ sn.fuel_type = "premium"
    /\ \E i \in 1..Len(result.recs) :
          result.recs[i].station_id = 1 /\ result.recs[i].fuel_type = "diesel"
    /\ \E i \in 1..Len(result.recs) :
          result.recs[i].station_id = 2 /\ result.recs[i].fuel_type = "diesel"
    /\ Len(predictions) = Len(result.recs)

\* C10: predict_demand returns None exactly when the pair has fewer than 3
\* observed days of sales.
C10_ForecastDeclinedBelowThreeDays ==
    call.fn = "predict_demand" =>
        (call.ret = None <=>
            Cardinality(SaleDays(call.station_id, call.fuel_type)) < 3)

\* a forecast from exactly 3 observed days
C10_Witness ==
    /\ call.fn = "predict_demand"
    /\ Cardinality(SaleDays(call.station_id, call.fuel_type)) = 3
    /\ call.ret # None
    /\ call.ret.avg_daily > 0

\* C11: a forecast of predict_demand has exactly horizon_days entries, dated
\* today + 1 .. today + horizon_days in ascending order, and every
\* predicted_liters is >= 0.
C11_PredictionsNonNegativeAndDated ==
    (call.fn = "predict_demand" /\ call.ret # None) =>
        /\ Len(call.ret.predictions) = call.horizon_days
        /\ \A d \in 1..Len(call.ret.predictions) :
              /\ call.ret.predictions[d].date = call.today + d
              /\ call.ret.predictions[d].predicted_liters >= 0

\* a forecast over a falling series: the trend is negative, the average
\* positive, and a day of the horizon is floored at zero
C11_Witness ==
    /\ call.fn = "predict_demand" /\ call.ret # None
    /\ call.horizon_days = DEFAULT_HORIZON_DAYS
    /\ call.ret.trend < 0
    /\ call.ret.avg_daily > 0
    /\ call.ret.predictions[1].predicted_liters > 0
    /\ call.ret.predictions[DEFAULT_HORIZON_DAYS].predicted_liters = 0

\* the per-day predicted liters of a forecast
PredictedLiters(ret) ==
    [d \in 1..Len(ret.predictions) |-> ret.predictions[d].predicted_liters]

\* two successive invocations of predict_demand that both give a forecast,
\* from the same series and for the same horizon
SameSeriesAndHorizon ==
    /\ call.fn = "predict_demand" /\ call'.fn = "predict_demand"
    /\ call.ret # None /\ call'.ret # None
    /\ call'.history = call.history
    /\ call'.horizon_days = call.horizon_days

SameEstimates ==
    /\ call'.ret.avg_daily = call.ret.avg_daily
    /\ call'.ret.trend = call.ret.trend
    /\ call'.ret.confidence = call.ret.confidence
    /\ PredictedLiters(call'.ret) = PredictedLiters(call.ret)

\* C12 as stated: two invocations of predict_demand given the same series
\* and the same horizon return the same average, trend, confidence and
\* per-day predicted liters.
C12_SameSeriesSameForecast ==
    [][SameSeriesAndHorizon => SameEstimates]_vars

\* C12 as amended: two invocations given the same series and the same
\* horizon on current dates of the same day of the week return the same
\* average, trend, confidence and per-day predicted liters.
C12_SameSeriesAndWeekdaySameForecast ==
    [][(SameSeriesAndHorizon /\ call'.today % 7 = call.today % 7) => SameEstimates]_vars

\* a forecast made a week or more after the last seeded day from the series
\* that was there on that day, with a multiplier that is not 1
C12_Witness ==
    /\ call.fn = "predict_demand" /\ call.ret # None
    /\ call.today > LastSeedDay + 1
    /\ call.history = GetDailySalesHistory(transactions, call.station_id,
                                           call.fuel_type, LastSeedDay, OPENING_HOUR)
    /\ \E d \in 1..Len(call.ret.predictions) :
          call.ret.predictions[d].dow_multiplier # 1000

\* the row is the one of the recommendation, not yet fulfilled
RowOfRec(row, rec) ==
    /\ row.station_id = rec.station_id
    /\ row.fuel_type = rec.fuel_type
    /\ row.recommended_liters = rec.recommended_liters
    /\ row.recommended_date = rec.recommended_date
    /\ row.urgency = rec.urgency
    /\ row.confidence = rec.confidence
    /\ row.fulfilled = FALSE

\* C13: a call of generate_order_recommendations leaves the stations, the
\* transactions, the snapshots and the Prediction rows it found as they
\* were, and appends exactly one unfulfilled row per recommendation it returns.
C13_RunOnlyAppendsOneRowPerRecommendation ==
    [][GenerateStep =>
        /\ stations' = stations
        /\ transactions' = transactions
        /\ snapshots' = snapshots
        /\ Len(predictions') >= Len(predictions)
        /\ SubSeq(predictions', 1, Len(predictions)) = predictions
        /\ Len(NewRows) = Len(result'.recs)
        /\ \A i \in 1..Len(result'.recs) :
              Cardinality({j \in 1..Len(NewRows) : RowOfRec(NewRows[j], result'.recs[i])}) = 1
        /\ \A j \in 1..Len(NewRows) :
              Cardinality({i \in 1..Len(result'.recs) : RowOfRec(NewRows[j], result'.recs[i])}) = 1
    ]_vars

\* a second call that returns recommendations and adds their rows after the
\* rows of the first
C13_Witness ==
    /\ runs = 2 /\ result.status = "ok"
    /\ Len(result.recs) >= 2
    /\ Len(predictions) > Len(result.recs)
    /\ \A i \in 1..Len(result.recs) :
          \E j \in 1..Len(LastRows) : RowOfRec(LastRows[j], result.recs[i])

\* the liters a station's forecast gives for a fuel on the k-th day after the
\* date of the last get_demand_forecast call, 0 when the forecast is declined
StationPredicted(station_id, fuel_type, k) ==
    LET demand == PredictDemand(GetDailySalesHistory(transactions, station_id, fuel_type,
                                                     call.today, call.clock),
                                call.days, call.today)
    IN  IF demand = None THEN 0 ELSE demand.predictions[k].predicted_liters

\* the stations the last get_demand_forecast call is about
ForecastStations ==
    IF call.station_id = 0 THEN {id \in DOMAIN stations : stations[id].active}
    ELSE {call.station_id} \cap DOMAIN stations

\* the sum over those stations
FleetPredicted(fuel_type, k) ==
    SumSeq([i \in 1..Cardinality(ForecastStations) |->
               StationPredicted(SortedSeqOf(ForecastStations)[i], fuel_type, k)])

\* C14: get_demand_forecast returns one bucket per date today + 1 ..
\* today + days in ascending order; a fuel's value is the sum of the selected
\* stations' predicted liters for the date, a declined forecast counting 0
\* and raising nothing; total is magna + premium + diesel.
C14_ForecastBucketsSumTheStations ==
    call.fn = "get_demand_forecast" =>
        /\ call.ret # [raised |-> TRUE]
        /\ Len(call.ret) = call.days
        /\ \A k \in 1..Len(call.ret) :
              /\ call.ret[k].date = call.today + k
              /\ call.ret[k].magna = FleetPredicted("magna", k)
              /\ call.ret[k].premium = FleetPredicted("premium", k)
              /\ call.ret[k].diesel = FleetPredicted("diesel", k)
              /\ call.ret[k].total =
                    call.ret[k].magna + call.ret[k].premium + call.ret[k].diesel

\* a fleet forecast in which the second station's magna is declined and the
\* first's is not, and both stations forecast premium
C14_Witness ==
    /\ call.fn = "get_demand_forecast" /\ call.station_id = 0 /\ call.days = 3
    /\ PredictDemand(GetDailySalesHistory(transactions, 2, "magna", call.today,
                                          call.clock), 3, call.today) = None
    /\ StationPredicted(1, "magna", 1) > 0
    /\ call.ret[1].magna = StationPredicted(1, "magna", 1)
    /\ StationPredicted(1, "premium", 1) > 0
    /\ StationPredicted(2, "premium", 1) > 0
    /\ call.ret[1].premium =
          StationPredicted(1, "premium", 1) + StationPredicted(2, "premium", 1)

\* the rows of the store that belong to one (station, fuel) pair
OwnTransactions(station_id, fuel_type) ==
    [t \in {r \in DOMAIN transactions :
                r.station_id = station_id /\ r.fuel_type = fuel_type} |-> transactions[t]]

OwnSnapshots(station_id, fuel_type) ==
    {sn \in snapshots : sn.station_id = station_id /\ sn.fuel_type = fuel_type}

\* C15: what a run gives for a pair depends only on the pair's own sales,
\* snapshots and capacity: it is what the loop body gives over a store that
\* holds that pair's rows alone, whatever the rows of the other pairs are.
C15_PairOutcomeDependsOnItsOwnDataOnly ==
    [][GenerateStep =>
        \A k \in 1..Len(ActivePairs(stations, 1)) :
            LET p == ActivePairs(stations, 1)[k]
                own == ProcessPair(stations[p[1]], p[2], result'.horizon_hours,
                                   today, clock, OwnTransactions(p[1], p[2]),
                                   OwnSnapshots(p[1], p[2]))
                mine == {i \in 1..Len(result'.recs) :
                            /\ result'.recs[i].station_id = p[1]
                            /\ result'.recs[i].fuel_type = p[2]}
            IN  IF own.kind = "rec"
                THEN \E i \in mine : result'.recs[i] = own.rec
                ELSE mine = {}
    ]_vars

\* the sold rows of the pair of the last history read whose timestamp is at
\* or after the start of the window of that read
SoldInWindow ==
    {t \in DOMAIN transactions :
        /\ t.station_id = call.station_id
        /\ t.fuel_type = call.fuel_type
        /\ t.transaction_type = "sold"
        /\ 24 * t.day + t.hour >= 24 * (call.today - 30) + call.clock}

\* C16: get_daily_sales_history returns (date, total) pairs in strictly
\* ascending date order, one per date, for exactly the dates on which the pair
\* has a sold transaction in the window, each with the sum of those
\* transactions (no received row, no row of another pair, no date made up),
\* and the empty list when there is none.
C16_HistoryIsTheSoldTotalsByDate ==
    call.fn = "get_daily_sales_history" =>
        /\ \A k \in 1..(Len(call.ret) - 1) : call.ret[k][1] < call.ret[k + 1][1]
        /\ {call.ret[k][1] : k \in 1..Len(call.ret)} = {t.day : t \in SoldInWindow}
        /\ \A k \in 1..Len(call.ret) :
              call.ret[k][2] =
                  SumLiters({t \in SoldInWindow : t.day = call.ret[k][1]}, transactions)
        /\ SoldInWindow = {} => call.ret = <<>>

\* a read, 30 days after the first sale of a pair that has 15 days of sales
\* and a delivery, that gives those 15 dates out of the 31 of the window
C16_Witness ==
    /\ call.fn = "get_daily_sales_history"
    /\ call.today = LastSeedDay - 14 + 30
    /\ Len(call.ret) = 15
    /\ call.ret[1][1] = LastSeedDay - 14
    /\ call.ret[15][1] = LastSeedDay
    /\ call.ret[15][2] > 0
    /\ \E t \in DOMAIN transactions :
          /\ t.station_id = call.station_id /\ t.fuel_type = call.fuel_type
          /\ t.transaction_type = "received"
    /\ \E t \in DOMAIN transactions :
          t.station_id # call.station_id /\ t.transaction_type = "sold"

\* the total that a history read reports for a date, when it reports the date
TotalOn(ret, date) ==
    LET k == CHOOSE k \in 1..Len(ret) : ret[k][1] = date IN ret[k][2]

ReportedDates(ret) == {ret[k][1] : k \in 1..Len(ret)}

\* C17: two successive history reads of a pair report the same total for
\* every date that had fully elapsed at the first read and that both results
\* contain, whatever the times of the two reads.
C17_ElapsedDateTotalIsImmutable ==
    [][(/\ call.fn = "get_daily_sales_history"
        /\ call'.fn = "get_daily_sales_history"
        /\ call'.station_id = call.station_id
        /\ call'.fuel_type = call.fuel_type)
       => \A date \in ReportedDates(call.ret) \cap ReportedDates(call'.ret) :
              date < call.today =>
                  TotalOn(call'.ret, date) = TotalOn(call.ret, date)]_vars

\* the daily totals behind the last forecast, in units of their common divisor
ObservedUnits ==
    LET g == GcdSeq([i \in 1..Len(call.history) |-> call.history[i][2]])
    IN  [i \in 1..Len(call.history) |->
            call.history[i][2] \div (IF g = 0 THEN 1 ELSE g)]

\* (n * stddev)^2 and (n * mean)^2 of the observed totals: their quotient is
\* the square of the coefficient of variation
SquaredDeviation ==
    Len(ObservedUnits) * SumSeq([i \in DOMAIN ObservedUnits |-> ObservedUnits[i] * ObservedUnits[i]])
        - SumSeq(ObservedUnits) * SumSeq(ObservedUnits)

SquaredSum == SumSeq(ObservedUnits) * SumSeq(ObservedUnits)

\* C19: the confidence of a forecast (in thousandths) is 650 for 3-6 observed
\* days and 800 for 7-13; for 14 or more it is 700 when the mean is not
\* positive, and otherwise lies in [700, 990] and is 1000 - 500 * stddev / mean
\* to the nearest thousandth unless that value is beyond the bound it sits
\* on.  It is always within [650, 990].
C19_ConfidenceByObservedDays ==
    (call.fn = "predict_demand" /\ call.ret # None) =>
        LET n == Len(call.history)
            c == call.ret.confidence
            k == 1000 - c
        IN  /\ n >= 3
            /\ n \in 3..6 => c = 650
            /\ n \in 7..13 => c = 800
            /\ (n >= 14 /\ SumSeq(ObservedUnits) <= 0) => c = 700
            /\ (n >= 14 /\ SumSeq(ObservedUnits) > 0) =>
                  /\ c \in 700..990
                  \* c < 990: 1000 - 500 * cv <= c + 1/2
                  /\ c < 990 =>
                        FracLeq((2 * k - 1) * (2 * k - 1), 1000000,
                                SquaredDeviation, SquaredSum)
                  \* c > 700: 1000 - 500 * cv >= c - 1/2
                  /\ c > 700 =>
                        FracLeq(SquaredDeviation, SquaredSum,
                                (2 * k + 1) * (2 * k + 1), 1000000)
            /\ c \in 650..990

\* a forecast from 14 or more observed days of positive mean whose confidence
\* is strictly between the two bounds
C19_Witness ==
    /\ call.fn = "predict_demand" /\ call.ret # None
    /\ Len(call.history) >= 14
    /\ SumSeq(ObservedUnits) > 0
    /\ call.ret.confidence > 700
    /\ call.ret.confidence < 990

\* the snapshots of the pair of the last inventory read
PairSnapshots ==
    {sn \in snapshots : sn.station_id = call.station_id /\ sn.fuel_type = call.fuel_type}

\* C18: get_current_inventory gives the liters, the capacity and the date of
\* the snapshot of the pair with the greatest snapshot_date, and None exactly
\* when the pair has no snapshot (stated of the store as the read saw it: no
\* request has ended since).
C18_CurrentInventoryIsTheLatestSnapshot ==
    (call.fn = "get_current_inventory" /\ call.served = Served) =>
        IF PairSnapshots = {} THEN call.ret = None
        ELSE /\ call.ret # None
             /\ \E sn \in PairSnapshots :
                   /\ call.ret.date = sn.snapshot_date
                   /\ call.ret.liters = sn.liters_on_hand
                   /\ call.ret.capacity = sn.capacity
             /\ \A sn \in PairSnapshots : sn.snapshot_date <= call.ret.date

\* a read of a pair that has snapshots of two dates with different liters,
\* after two requests recorded on it, while other pairs have snapshots too
C18_Witness ==
    /\ call.fn = "get_current_inventory"
    /\ call.served = Served
    /\ call.ret # None
    /\ \E a, b \in PairSnapshots :
          /\ a.snapshot_date < b.snapshot_date
          /\ a.liters_on_hand # b.liters_on_hand
          /\ call.ret.liters = b.liters_on_hand
    /\ snapshots # PairSnapshots
    /\ requests >= 2

SameSnapshotKey(a, b) ==
    /\ a.station_id = b.station_id
    /\ a.fuel_type = b.fuel_type
    /\ a.snapshot_date = b.snapshot_date

AtMostOneSnapshotPerDate ==
    \A a, b \in snapshots : SameSnapshotKey(a, b) => a = b

\* the liters that a request leaves in a snapshot that held `liters`
AfterRequest(liters, tx) ==
    IF tx.transaction_type = "received" THEN liters + tx.liters
    ELSE IF liters - tx.liters > 0 THEN liters - tx.liters ELSE 0

\* C20: the store never holds two snapshots of one (station, fuel, date), and
\* a request that commits while the store has a snapshot of its station, fuel
\* and date updates that row and records its transaction, adding no snapshot.
C20_OneSnapshotPerStationFuelDate ==
    /\ []AtMostOneSnapshotPerDate
    /\ [][\A s \in sessions \ sessions' :
            \A sn \in snapshots :
                (/\ s.pc = "queried"
                 /\ sn.station_id = s.tx.station_id
                 /\ sn.fuel_type = s.tx.fuel_type
                 /\ sn.snapshot_date = s.snapshot_date)
                => /\ snapshots' = (snapshots \ {sn}) \cup
                          {[sn EXCEPT !.liters_on_hand =
                                AfterRequest(sn.liters_on_hand, s.tx)]}
                   /\ s.tx \in DOMAIN transactions'
                   /\ transactions'[s.tx] =
                          1 + (IF s.tx \in DOMAIN transactions
                               THEN transactions[s.tx] ELSE 0)]_vars

\* two requests on the same station, fuel and date in progress together: one
\* holds the lock and is about to add the first snapshot of the date, the
\* other has added its transaction and waits
C20_Witness ==
    \E s, w \in sessions :
        /\ s.pc = "queried" /\ s.snap_id = 0
        /\ w.pc = "added"
        /\ w.tx.station_id = s.tx.station_id
        /\ w.tx.fuel_type = s.tx.fuel_type
        /\ w.tx.day = s.snapshot_date
        /\ ~UniqueViolation(snapshots, s)

\* the daily totals behind the last forecast, oldest first
Observed == [i \in 1..Len(call.history) |-> call.history[i][2]]

\* the values that the baseline averages and the weight of each, written out
Averaged ==
    IF Len(Observed) >= 7
    THEN [i \in 1..7 |-> Observed[Len(Observed) - 7 + i]]
    ELSE Observed

ProfileWeight(i) ==
    IF Len(Observed) >= 7
    THEN CASE i \in {1, 2} -> 1 [] i \in {3, 4} -> 2 [] i \in {5, 6} -> 3 [] OTHER -> 4
    ELSE i

WeightedTotal == SumSeq([i \in 1..Len(Averaged) |-> ProfileWeight(i) * Averaged[i]])
WeightTotal == SumSeq([i \in 1..Len(Averaged) |-> ProfileWeight(i)])

\* C21: avg_daily of a forecast is the weighted mean of the last 7 observed
\* values with weights 1,1,2,2,3,3,4 (7 or more observed days) or of all n
\* values with weights 1..n (n < 7), to the nearest liter, and lies between
\* the least and the greatest of the values averaged.
C21_BaselineIsTheWeightedMean ==
    (call.fn = "predict_demand" /\ call.ret # None) =>
        /\ 2 * call.ret.avg_daily * WeightTotal <= 2 * WeightedTotal + WeightTotal
        /\ 2 * call.ret.avg_daily * WeightTotal >= 2 * WeightedTotal - WeightTotal
        /\ \E i \in 1..Len(Averaged) : Averaged[i] <= call.ret.avg_daily
        /\ \E i \in 1..Len(Averaged) : Averaged[i] >= call.ret.avg_daily
        /\ \E i \in 1..Len(Averaged) : Averaged[i] * WeightTotal <= WeightedTotal
        /\ \E i \in 1..Len(Averaged) : Averaged[i] * WeightTotal >= WeightedTotal

\* a forecast from more than 7 observed days whose last 7 values differ, with
\* a baseline that is neither their plain mean nor the mean of all the days
C21_Witness ==
    /\ call.fn = "predict_demand" /\ call.ret # None
    /\ Len(Observed) > 7
    /\ Averaged[1] # Averaged[7]
    /\ 7 * WeightedTotal # WeightTotal * SumSeq(Averaged)
    /\ Len(Observed) * WeightedTotal # WeightTotal * SumSeq(Observed)

\* the least-squares slope of the last m of the observed values against
\* 0..m-1, as numerator and denominator:
\* sum (x - mean x) * y / sum (x - mean x)^2 = 6 * sum (2x - m + 1) * y / (m * (m^2 - 1))
SlopeNumerator(m) ==
    6 * SumSeq([i \in 1..m |->
                   (2 * (i - 1) - m + 1) * Observed[Len(Observed) - m + i]])

SlopeDenominator(m) == m * (m * m - 1)

\* t tenths is the slope over the last m values to the nearest tenth
IsSlopeInTenths(t, m) ==
    /\ 2 * (t * SlopeDenominator(m) - 10 * SlopeNumerator(m)) <= SlopeDenominator(m)
    /\ 2 * (10 * SlopeNumerator(m) - t * SlopeDenominator(m)) <= SlopeDenominator(m)

\* C22: the trend of a forecast is 0 with fewer than 5 observed days, and
\* otherwise the least-squares slope of the last min(14, n) observed values
\* against their index (to the tenth of a liter that is reported): older
\* observations have no part in it.
C22_TrendIsTheSlopeOfTheLastFourteen ==
    (call.fn = "predict_demand" /\ call.ret # None) =>
        IF Len(Observed) < 5 THEN call.ret.trend = 0
        ELSE IsSlopeInTenths(call.ret.trend,
                             IF Len(Observed) > 14 THEN 14 ELSE Len(Observed))

\* a forecast from 15 observed days with a trend that is not zero and is not
\* the slope over all the 15
C22_Witness ==
    /\ call.fn = "predict_demand" /\ call.ret # None
    /\ Len(Observed) = 15
    /\ call.ret.trend # 0
    /\ ~IsSlopeInTenths(call.ret.trend, 15)

\* the positions of the observed days that fall on the weekday of a date
OnWeekdayOf(date) ==
    {i \in 1..Len(call.history) : call.history[i][1] % 7 = date % 7}

ObservedOn(date) ==
    SumSeq([i \in 1..Len(Observed) |-> IF i \in OnWeekdayOf(date) THEN Observed[i] ELSE 0])

\* C23: the weekday multiplier of each predicted day is 1 when no observed
\* day falls on its weekday, 1 when the mean of all observed days is not
\* positive, and otherwise (mean of the observed days of that weekday) /
\* (mean of all observed days), to the thousandth that is reported; it is
\* always a number.
C23_WeekdayMultiplierIsRatioOfMeans ==
    (call.fn = "predict_demand" /\ call.ret # None) =>
        \A d \in 1..Len(call.ret.predictions) :
            LET p == call.ret.predictions[d]
                k == Cardinality(OnWeekdayOf(p.date))
                n == Len(Observed)
                all == SumSeq(Observed)
            IN  /\ p.dow_multiplier \in Int
                /\ k = 0 => p.dow_multiplier = 1000
                /\ all <= 0 => p.dow_multiplier = 1000
                /\ (k > 0 /\ all > 0) =>
                      /\ 2 * (p.dow_multiplier * k * all - 1000 * ObservedOn(p.date) * n)
                            <= k * all
                      /\ 2 * (1000 * ObservedOn(p.date) * n - p.dow_multiplier * k * all)
                            <= k * all

\* a forecast of a week from six observed days: the day whose weekday was
\* never observed has multiplier 1, another day has a multiplier above 1 and
\* a third one below 1
C23_Witness ==
    /\ call.fn = "predict_demand" /\ call.ret # None
    /\ SumSeq(Observed) > 0
    /\ \E a, b, c \in 1..Len(call.ret.predictions) :
          /\ OnWeekdayOf(call.ret.predictions[a].date) = {}
          /\ call.ret.predictions[a].dow_multiplier = 1000
          /\ OnWeekdayOf(call.ret.predictions[b].date) # {}
          /\ call.ret.predictions[b].dow_multiplier > 1000
          /\ call.ret.predictions[c].dow_multiplier < 1000

\* the tier of the confidence for n observed days of no variance, thousandths
TierOfConstant(n) == IF n >= 14 THEN 990 ELSE IF n >= 7 THEN 800 ELSE 650

\* C24: for a series of n >= 3 observed days all equal to c > 0,
\* predict_demand gives average c, trend 0, every weekday multiplier 1, every
\* predicted day c, and the confidence of the tier of n (0.80 for n = 7).
C24_ConstantSeriesIsPredictedConstant ==
    (/\ call.fn = "predict_demand"
     /\ Len(call.history) >= 3
     /\ call.history[1][2] > 0
     /\ \A i \in 1..Len(call.history) : call.history[i][2] = call.history[1][2])
    => /\ call.ret # None
       /\ call.ret.avg_daily = call.history[1][2]
       /\ call.ret.trend = 0
       /\ call.ret.confidence = TierOfConstant(Len(call.history))
       /\ Len(call.ret.predictions) = call.horizon_days
       /\ \A d \in 1..Len(call.ret.predictions) :
             /\ call.ret.predictions[d].dow_multiplier = 1000
             /\ call.ret.predictions[d].predicted_liters = call.history[1][2]

\* the forecast of a week from seven observed days of 1000 liters each
C24_Witness ==
    /\ call.fn = "predict_demand" /\ call.ret # None
    /\ Len(call.history) = 7
    /\ \A i \in 1..7 : call.history[i][2] = 1000
    /\ call.horizon_days = 7
    /\ call.ret.confidence = 800
    /\ call.ret.predictions[7].predicted_liters = 1000

\* C25: every recommendation of a run is delivered on a date strictly after
\* the date of the run; for a normal one the number of days until the
\* delivery is floor(days_left) - 1, at least 1 and strictly below days_left.
C25_DeliveryIsAfterToday ==
    \A i \in 1..Len(result.recs) :
        LET r == result.recs[i]
            days_left == RecDaysLeft(r)
            offset == r.recommended_date.day - result.today
        IN  /\ offset >= 1
            /\ r.urgency = "normal" =>
                  /\ days_left[1] > 2 * days_left[2]
                  /\ (offset + 1) * days_left[2] <= days_left[1]
                  /\ (offset + 2) * days_left[2] > days_left[1]
                  /\ offset * days_left[2] < days_left[1]

\* a list with a normal recommendation for the very next day (days_left
\* between 2 and 3), another normal one for a later day, and an urgent one
C25_Witness ==
    /\ \E i \in 1..Len(result.recs) :
          /\ result.recs[i].urgency = "normal"
          /\ result.recs[i].recommended_date.day = result.today + 1
    /\ \E i \in 1..Len(result.recs) :
          /\ result.recs[i].urgency = "normal"
          /\ result.recs[i].recommended_date.day > result.today + 1
    /\ \E i \in 1..Len(result.recs) : result.recs[i].urgency = "urgent"

\* C26: the list of a run is in non-decreasing order of the reported
\* days_until_empty (tenths of a day) as a whole; an urgent entry reports at
\* most 1.0, a high one from 1.0 to 2.0, a normal one at least 2.0.
C26_ListOrderedByReportedDays ==
    /\ \A i \in 1..(Len(result.recs) - 1) :
          result.recs[i].days_until_empty <= result.recs[i + 1].days_until_empty
    /\ \A i \in 1..Len(result.recs) :
          LET r == result.recs[i]
          IN  /\ r.urgency = "urgent" => r.days_until_empty <= 10
              /\ r.urgency = "high" => r.days_until_empty \in 10..20
              /\ r.urgency = "normal" => r.days_until_empty >= 20

\* a list that goes through the three urgencies and is not in the order of
\* the loops
C26_Witness ==
    /\ result.recs # <<>>
    /\ result.recs[1].urgency = "urgent"
    /\ \E i \in 1..Len(result.recs) : result.recs[i].urgency = "high"
    /\ result.recs[Len(result.recs)].urgency = "normal"
    /\ result.recs[1].days_until_empty < result.recs[Len(result.recs)].days_until_empty
    /\ \E i \in 1..(Len(result.recs) - 1) :
          result.recs[i].station_id > result.recs[i + 1].station_id

\* C27: for every recommendation of a run, current_liters +
\* recommended_liters <= capacity.
C27_RecommendedFitsTheFreeSpace ==
    \A i \in 1..Len(result.recs) :
        result.recs[i].current_liters + result.recs[i].recommended_liters
            <= result.recs[i].capacity

\* C27, as the code has it: for every recommendation of a run,
\* current_liters + recommended_liters <= 0.85 * capacity + avg_daily_demand
\* + 250 (the rounding to 500 liters), so that it is <= capacity whenever
\* avg_daily_demand <= 0.15 * capacity - 250.
C27_RecommendedFitsAfterOneDayOfDemand ==
    \A i \in 1..Len(result.recs) :
        LET r == result.recs[i]
        IN  /\ 100 * (r.current_liters + r.recommended_liters)
                  <= 85 * r.capacity + 100 * r.avg_daily_demand + 25000
            /\ 100 * r.avg_daily_demand <= 15 * r.capacity - 25000
                  => r.current_liters + r.recommended_liters <= r.capacity

\* a list with a recommendation that exceeds the free space of its tank by
\* more than the rounding, one that exceeds it by the rounding only, and one
\* that fits
C27_Witness ==
    /\ \E i \in 1..Len(result.recs) :
          result.recs[i].current_liters + result.recs[i].recommended_liters
              > result.recs[i].capacity + 250
    /\ \E i \in 1..Len(result.recs) :
          /\ result.recs[i].current_liters + result.recs[i].recommended_liters
                > result.recs[i].capacity
          /\ result.recs[i].current_liters + result.recs[i].recommended_liters
                <= result.recs[i].capacity + 250
    /\ \E i \in 1..Len(result.recs) :
          result.recs[i].current_liters + result.recs[i].recommended_liters
              <= result.recs[i].capacity


\* the entries of a list that are not in another
Absent(recs, others) ==
    {i \in DOMAIN recs : \A j \in DOMAIN others : others[j] # recs[i]}

\* a call over the store and the date the call before it read, both
\* returning a list, the horizon of the second no shorter
SameStoreLongerHorizon ==
    /\ GenerateStep
    /\ result.status = "ok" /\ result'.status = "ok"
    /\ requests = 0 /\ result.today = today /\ result'.today = today
    /\ result.horizon_hours <= result'.horizon_hours

\* C28: generate_order_recommendations is monotone in its horizon: over
\* unchanged data and date every entry returned for h1 is returned, field
\* by field the same, for every h2 >= h1, and an entry returned only for h2
\* is one whose days_left is more than h1 / 24 + 2.
C28_MonotoneInHorizon ==
    [][SameStoreLongerHorizon =>
          /\ Absent(result.recs, result'.recs) = {}
          /\ \A j \in Absent(result'.recs, result.recs) :
                LET days_left == RecDaysLeft(result'.recs[j])
                IN  24 * days_left[1] > (result.horizon_hours + 48) * days_left[2]]_vars

\* a call for 480 hours that followed one for 60 hours: the first returned
\* some entries, the second more
C28_Witness ==
    /\ runs = 2
    /\ result.status = "ok"
    /\ result.horizon_hours = 480
    /\ Len(predictions) > Len(result.recs)
    /\ Len(predictions) < 2 * Len(result.recs)
    /\ \E j \in DOMAIN result.recs :
          LET days_left == RecDaysLeft(result.recs[j])
          IN  24 * days_left[1] > (60 + 48) * days_left[2]


\* a call with the horizon of the call before it, over the store and the
\* date that call read
SameStoreSameHorizon ==
    /\ GenerateStep
    /\ result.status = "ok"
    /\ requests = 0 /\ result.today = today
    /\ result'.horizon_hours = result.horizon_hours

\* C29: the result of generate_order_recommendations does not depend on the
\* Prediction table: a call that follows another with the same horizon and
\* no change to stations, transactions, snapshots or date returns the same
\* list and appends as many rows again, one for every entry, although each
\* of its pairs already has an unfulfilled row.
C29_SecondCallRepeatsTheFirst ==
    [][SameStoreSameHorizon =>
          /\ result'.status = "ok"
          /\ result'.recs = result.recs
          /\ Len(predictions') = Len(predictions) + Len(result.recs)
          /\ \A i \in DOMAIN result.recs :
                \E k \in DOMAIN predictions :
                   /\ predictions[k].station_id = result.recs[i].station_id
                   /\ predictions[k].fuel_type = result.recs[i].fuel_type
                   /\ ~predictions[k].fulfilled]_vars

\* two calls have each stored the rows of the same two or more
\* recommendations
C29_Witness ==
    /\ runs = 2
    /\ requests = 0
    /\ result.status = "ok"
    /\ Len(result.recs) >= 2
    /\ Len(predictions) = 2 * Len(result.recs)
    /\ SubSeq(predictions, 1, Len(result.recs)) = LastRows


\* liters_on_hand of the latest snapshot of a pair
LatestLiters(snaps, station_id, fuel_type) ==
    GetCurrentInventory(snaps, station_id, fuel_type).liters

\* C30: recording a 'received' transaction of L >= 0 liters never lowers
\* the level get_current_inventory reports for the station and fuel: for a
\* pair that has a snapshot, the latest liters_on_hand after the request is
\* the latest liters_on_hand before it plus L, also when the request is the
\* first one of a new calendar day and earlier days have snapshots.
C30_ReceivedAddsToTheLatestLevel ==
    [][\A station_id \in StationIds, fuel_type \in RecordFuels,
          liters \in {l \in ReceivedLiters : l >= 0} :
          (/\ RecordTransaction(station_id, fuel_type, "received", liters)
           /\ GetCurrentInventory(snapshots, station_id, fuel_type) # None)
          => /\ LatestLiters(snapshots', station_id, fuel_type) =
                   AddLiters(LatestLiters(snapshots, station_id, fuel_type), liters)
             /\ \/ LatestLiters(snapshots, station_id, fuel_type) = NegInf
                \/ LatestLiters(snapshots', station_id, fuel_type) >=
                      LatestLiters(snapshots, station_id, fuel_type)]_vars

====
